---- MODULE Spec2Model ----
(***************************************************************************)
(* A model of the analysis + translation core of autovis:                  *)
(*   - EnhancedAnalyzer (src/analyzer.py): one traversal of a syntax tree   *)
(*     that classifies variables and sets algorithm flags, then            *)
(*     summarize().                                                        *)
(*   - InstrumentedTranslator (src/translator.py): the walk that emits the  *)
(*     instrumented target-language lines.                                 *)
(* The analyzer is modelled as the stream of visitor calls of one          *)
(* traversal; a visitor's action contains the visits of the children that  *)
(* its generic_visit() reaches whenever those change the modelled state.   *)
(***************************************************************************)
EXTENDS Integers, Sequences, FiniteSets, TLC

\* ------------------------------------------------------------------ bounds
\* Number of visitor calls of one analyzer traversal.
MaxSteps == 3
\* Longest subscript chain (m[i][j][k] has length 3) of the analysed units.
MaxChain == 3
\* largest magnitude of an integer literal used as an index
MaxLit == 1
\* Longest subscript chain handed to the chain walks on their own.
MaxDeep == 12
\* the iterations that the loops of one run of an emitted program make in all
MaxIter == 2
\* the calls of __heappush and __heappop made on one array, and the numbers pushed
MaxCalls == 6
MaxValue == 3

\* ------------------------------------------------------- program constants
\* analyzer.py: `if depth > 10: break` in _get_subscript_info.
SubscriptCap == 10
\* analyzer.py: key_vars holds at most 3 names, at most 2 of them 2-D.
KeyVarCap == 3
KeyVar2dCap == 2

\* ------------------------------------------------------------- small helpers
Min(a, b) == IF a < b THEN a ELSE b
Max(a, b) == IF a > b THEN a ELSE b
Take(s, n) == SubSeq(s, 1, Min(n, Len(s)))
Range(s) == {s[i] : i \in 1..Len(s)}

\* The variable names of the analysed units.
NamesA == {"arr", "m", "q"}
\* Python's order of these strings (sorted() compares them lexicographically).
NameRank(n) == CASE n = "arr" -> 1 [] n = "m" -> 2 [] n = "q" -> 3

\* sorted(S) for a set of names.
Sorted(S) ==
    CHOOSE s \in [1..Cardinality(S) -> S] :
        /\ \A i, j \in 1..Cardinality(S) : i < j => NameRank(s[i]) < NameRank(s[j])

\* ------------------------------------------------------------ function names
\* Function names are sequences of characters, so that lower() and the
\* substring tests of visit_FunctionDef are computed, not assumed.
N_bubbleSort   == <<"b","u","b","b","l","e","S","o","r","t">>
N_binarySearch == <<"b","i","n","a","r","y","S","e","a","r","c","h">>
N_QuickDFS     == <<"Q","U","I","C","K","D","F","S">>
N_dfs          == <<"d","f","s">>
N_solve        == <<"s","o","l","v","e">>
FuncNames == {N_bubbleSort, N_binarySearch, N_QuickDFS, N_dfs, N_solve}

\* str.lower() on the characters that occur in FuncNames.
LowerChar(c) ==
    CASE c = "S" -> "s" [] c = "Q" -> "q" [] c = "U" -> "u" [] c = "I" -> "i"
      [] c = "C" -> "c" [] c = "K" -> "k" [] c = "D" -> "d" [] c = "F" -> "f"
      [] OTHER -> c
Lower(s) == [i \in 1..Len(s) |-> LowerChar(s[i])]

\* Python's `sub in s` for strings.
Contains(sub, s) ==
    \E i \in 0..(Len(s) - Len(sub)) :
        \A k \in 1..Len(sub) : s[i + k] = sub[k]

KwSorting   == {<<"s","o","r","t">>, <<"b","u","b","b","l","e">>,
                <<"m","e","r","g","e">>, <<"q","u","i","c","k">>}
KwSearching == {<<"s","e","a","r","c","h">>, <<"b","i","n","a","r","y">>,
                <<"f","i","n","d">>}
KwGraph     == {<<"d","f","s">>, <<"b","f","s">>,
                <<"t","r","a","v","e","r","s","e">>, <<"g","r","a","p","h">>}
KwDp        == {<<"d","p">>, <<"d","y","n","a","m","i","c">>}
KwBacktrack == {<<"b","a","c","k","t","r","a","c","k">>}
AnyIn(kws, s) == \E k \in kws : Contains(k, s)

\* The category of a function name: the first matching branch of the
\* if/elif chain of visit_FunctionDef, taken on the lowercased name.
FuncNameCategory_CaseSensitive(name) ==
    IF AnyIn(KwSorting, name) THEN "sorting"
    ELSE IF AnyIn(KwSearching, name) THEN "searching"
    ELSE IF AnyIn(KwGraph, name) THEN "graph"
    ELSE IF AnyIn(KwDp, name) THEN "dp"
    ELSE IF AnyIn(KwBacktrack, name) THEN "backtracking"
    ELSE "none"
FuncNameCategory(name) ==
    LET name_lower == Lower(name) IN
    IF AnyIn(KwSorting, name_lower) THEN "sorting"
    ELSE IF AnyIn(KwSearching, name_lower) THEN "searching"
    ELSE IF AnyIn(KwGraph, name_lower) THEN "graph"
    ELSE IF AnyIn(KwDp, name_lower) THEN "dp"
    ELSE IF AnyIn(KwBacktrack, name_lower) THEN "backtracking"
    ELSE "none"

\* ------------------------------------------------------------------- state
VARIABLES
    an,       \* the EnhancedAnalyzer instance (its fields)
    pc,       \* "walk" during the traversal, "done" once summarize() returned
    steps,    \* visitor calls made so far
    summary,  \* the dictionary returned by summarize()
    obs,      \* what the traversed unit contained (an observer, not program state)
    translator, \* the InstrumentedTranslator instance (its fields)
    todo,     \* the statements still to visit and the handler tails still to run
    phase,    \* "idle", "visit" during translator.visit(tree), "done" after it
    js,       \* the lines of the text translate_to_js returned
    last,     \* the item handled last and the number of lines before it (an observer)
    unit,     \* the comparisons of a source unit analysed twice, in traversal order
    runs,     \* the two analyses of unit: hash seed of the process, position, result
    walk,     \* one subscript expression and what the chain walks made of it
    jsheap,   \* the array handed to __heappush / __heappop, the call made last, the
              \* array before it and the value it returned (<<>> for undefined)
    exec      \* the execution of the emitted program: position, frames, open selections

vars == <<an, pc, steps, summary, obs, translator, todo, phase, js, last, unit, runs, walk, jsheap, exec>>

\* ============================ EnhancedAnalyzer ============================

\* EnhancedAnalyzer.__init__
AnalyzerInit ==
    [vars_1d |-> {}, vars_2d |-> {}, vars_graph |-> {}, vars_tree |-> {},
     vars_stack |-> {}, vars_queue |-> {}, vars_heap |-> {}, vars_set |-> {},
     vars_dict |-> {},
     var_depth |-> [n \in NamesA |-> 0],
     has_sorting |-> FALSE, has_searching |-> FALSE,
     has_graph_traversal |-> FALSE, has_dp |-> FALSE, has_backtracking |-> FALSE]

\* A subscript chain: `len` nested Subscript nodes over a root that is the
\* Name `root`, or over something that is not a name (root = NoName).
NoName == ""
Chain(root, len) == [root |-> root, len |-> len]

\* _get_subscript_info: walk the chain towards its root, counting, and stop
\* once the count has passed SubscriptCap. Returns <<base, depth>>.
RECURSIVE SubscriptWalk(_, _)
SubscriptWalk(remaining, depth) ==
    IF remaining > 0
    THEN IF depth + 1 > SubscriptCap
         THEN <<remaining - 1, depth + 1>>
         ELSE SubscriptWalk(remaining - 1, depth + 1)
    ELSE <<remaining, depth>>
_get_subscript_info(node) ==
    LET w == SubscriptWalk(node.len, 0) IN
    IF w[1] = 0 /\ node.root # NoName THEN <<node.root, w[2]>> ELSE <<NoName, w[2]>>

\* visit_Subscript on one Subscript node (without its children).
SubscriptNode(a, node) ==
    LET info == _get_subscript_info(node)
        base == info[1]
        depth == info[2]
    IN IF base = NoName THEN a
       ELSE [a EXCEPT !.var_depth[base] = IF depth > @ THEN depth ELSE @,
                      !.vars_1d = IF depth = 1 THEN @ \cup {base} ELSE @,
                      !.vars_2d = IF depth >= 2 THEN @ \cup {base} ELSE @]

\* visit_Subscript with the generic_visit() below it: the node, then its
\* value (the chain one shorter), down to the root name.
RECURSIVE SubscriptVisit(_, _)
SubscriptVisit(a, node) ==
    IF node.len = 0 THEN a
    ELSE SubscriptVisit(SubscriptNode(a, node), Chain(node.root, node.len - 1))

\* ---- visit_Call
\* A call node: func is a bare name (kind "Name", id the name), or an
\* attribute of a name (kind "Attr", id the object, attr the method);
\* arg0 is the name passed first, NoName when absent or not a bare name.
CallNode(kind, id, attr, arg0) == [kind |-> kind, id |-> id, attr |-> attr, arg0 |-> arg0]

HeapArg(a, node) ==
    IF node.arg0 # NoName
    THEN [a EXCEPT !.vars_heap = @ \cup {node.arg0}, !.vars_1d = @ \cup {node.arg0}]
    ELSE a

\* visit_Attribute on `var.method` (var a bare name).
visit_Attribute(a, var, method) ==
    IF method \in {"append", "pop"}
    THEN [a EXCEPT !.vars_stack = @ \cup {var}, !.vars_1d = @ \cup {var}]
    ELSE IF method \in {"popleft", "appendleft"}
    THEN [a EXCEPT !.vars_queue = @ \cup {var}, !.vars_1d = @ \cup {var}]
    ELSE IF method \in {"left", "right", "parent", "val"}
    THEN [a EXCEPT !.vars_tree = @ \cup {var}, !.has_graph_traversal = TRUE]
    ELSE IF method \in {"add", "remove", "discard", "union", "intersection"}
    THEN [a EXCEPT !.vars_set = @ \cup {var}]
    ELSE IF method \in {"keys", "values", "items", "get"}
    THEN [a EXCEPT !.vars_dict = @ \cup {var}]
    ELSE a

\* visit_Call, then the generic_visit() below it: the func attribute of a
\* method call is an Attribute node and is visited.
visit_Call(a, node) ==
    LET own ==
          IF node.kind = "Name"
          THEN IF node.id \in {"sort", "sorted"}
               THEN [a EXCEPT !.has_sorting = TRUE]
               ELSE IF node.id \in {"bisect", "bisect_left", "bisect_right"}
               THEN [a EXCEPT !.has_searching = TRUE]
               ELSE IF node.id \in {"heappush", "heappop", "heapify"}
               THEN HeapArg(a, node)
               ELSE a
          ELSE IF node.id = "heapq" THEN HeapArg(a, node) ELSE a
    IN IF node.kind = "Attr"
       THEN visit_Attribute(own, node.id, node.attr)
       ELSE own

\* ---- visit_Assign with a Name target
\* The assigned value. t is the node type; a List has elts (the node types of
\* its elements), a BinOp has op, left and right (node types), a ListComp has
\* iters (the node type of each generator's iter), a Call has call (a
\* CallNode), a Name has id.
ValList(elts)       == [t |-> "List", elts |-> elts]
ValBinOp(op, l, r)  == [t |-> "BinOp", op |-> op, left |-> l, right |-> r]
ValListComp(iters)  == [t |-> "ListComp", iters |-> iters]
ValCall(call)       == [t |-> "Call", call |-> call]
ValName(id)         == [t |-> "Name", id |-> id]
ValOther            == [t |-> "Constant"]

AddSimple(a, name, set2d, depth) ==
    IF set2d
    THEN [a EXCEPT !.vars_2d = @ \cup {name}, !.var_depth[name] = depth]
    ELSE [a EXCEPT !.vars_1d = @ \cup {name}, !.var_depth[name] = depth]

_handle_call_assign(a, name, call) ==
    IF call.kind # "Name" THEN a
    ELSE IF call.id = "deque"
    THEN [a EXCEPT !.vars_queue = @ \cup {name}, !.vars_1d = @ \cup {name}]
    ELSE IF call.id \in {"defaultdict", "Counter", "dict"}
    THEN [a EXCEPT !.vars_dict = @ \cup {name}]
    ELSE IF call.id = "set"
    THEN [a EXCEPT !.vars_set = @ \cup {name}]
    ELSE IF call.id \in {"list", "sorted", "reversed", "map", "filter"}
    THEN [a EXCEPT !.vars_1d = @ \cup {name}]
    ELSE a

_handle_simple_assign(a, name, value) ==
    IF value.t = "List"
    THEN IF value.elts # <<>> /\ \A i \in 1..Len(value.elts) : value.elts[i] = "List"
         THEN AddSimple(a, name, TRUE, 2)
         ELSE AddSimple(a, name, FALSE, 1)
    ELSE IF value.t = "BinOp" /\ value.op = "Mult"
    THEN IF value.left = "List" \/ value.right = "List"
         THEN AddSimple(a, name, FALSE, 1)
         ELSE a
    ELSE IF value.t = "ListComp"
    THEN LET has_nested == \E i \in 1..Len(value.iters) :
                               value.iters[i] \in {"ListComp", "Subscript"}
         IN IF has_nested \/ Len(value.iters) >= 2
            THEN AddSimple(a, name, TRUE, 2)
            ELSE AddSimple(a, name, FALSE, 1)
    ELSE IF value.t = "Call"
    THEN _handle_call_assign(a, name, value.call)
    ELSE IF value.t = "Name"
    THEN IF value.id \in a.vars_1d
         THEN [a EXCEPT !.vars_1d = @ \cup {name}]
         ELSE IF value.id \in a.vars_2d
         THEN [a EXCEPT !.vars_2d = @ \cup {name}]
         ELSE a
    ELSE a

\* visit_Assign on `name = value`: the handler, then generic_visit(): a Call
\* value is visited by visit_Call.
AssignName(a, name, value) ==
    LET h == _handle_simple_assign(a, name, value) IN
    IF value.t = "Call" THEN visit_Call(h, value.call) ELSE h

\* ---- visit_For
\* The iter of the loop: [t |-> "Call", func, arg0], [t |-> "Name", id] or
\* [t |-> "Subscript", chain].
IterCall(func, arg0) == [t |-> "Call", func |-> func, arg0 |-> arg0]
IterName(id)         == [t |-> "Name", id |-> id]
IterSub(chain)       == [t |-> "Subscript", chain |-> chain]

\* visit_For, then generic_visit(): a Subscript iter is visited by
\* visit_Subscript, a Call iter by visit_Call.
visit_For(a, iter) ==
    IF iter.t = "Call"
    THEN LET own == IF iter.func = "enumerate" /\ iter.arg0 # NoName
                    THEN [a EXCEPT !.vars_1d = @ \cup {iter.arg0}]
                    ELSE a
         IN visit_Call(own, CallNode("Name", iter.func, "", iter.arg0))
    ELSE IF iter.t = "Name"
    THEN [a EXCEPT !.vars_1d = @ \cup {iter.id}]
    ELSE LET base == _get_subscript_info(iter.chain)[1]
             own == IF base # NoName
                    THEN [a EXCEPT !.vars_2d = @ \cup {base},
                                   !.has_graph_traversal = TRUE]
                    ELSE a
         IN SubscriptVisit(own, iter.chain)

\* ---- visit_FunctionDef (the flags; the body is visited by later calls)
visit_FunctionDef(a, name) ==
    LET c == FuncNameCategory(name) IN
    [a EXCEPT !.has_sorting = @ \/ c = "sorting",
              !.has_searching = @ \/ c = "searching",
              !.has_graph_traversal = @ \/ c = "graph",
              !.has_dp = @ \/ c = "dp",
              !.has_backtracking = @ \/ c = "backtracking"]

\* ---- summarize
_determine_viz_type_SortingFirst(a) ==
    IF a.has_graph_traversal \/ a.vars_graph # {} \/ a.vars_tree # {} THEN "graph"
    ELSE IF a.has_sorting THEN "sorting"
    ELSE IF a.vars_2d # {} THEN "array2d"
    ELSE IF a.vars_1d # {} THEN "array1d"
    ELSE IF a.vars_stack # {} \/ a.vars_queue # {} THEN "stack_queue"
    ELSE "basic"
_determine_viz_type(a) ==
    IF a.has_graph_traversal \/ a.vars_graph # {} \/ a.vars_tree # {} THEN "graph"
    ELSE IF a.vars_2d # {} THEN "array2d"
    ELSE IF a.has_sorting THEN "sorting"
    ELSE IF a.vars_1d # {} THEN "array1d"
    ELSE IF a.vars_stack # {} \/ a.vars_queue # {} THEN "stack_queue"
    ELSE "basic"

_identify_key_vars_NoCap(a) ==
    LET k1 == IF a.vars_2d # {} THEN Take(Sorted(a.vars_2d), KeyVar2dCap) ELSE <<>>
        k2 == IF a.vars_1d # {} THEN k1 \o Sorted(a.vars_1d) ELSE k1
        k3 == IF a.vars_stack # {} \/ a.vars_queue # {}
              THEN k2 \o Sorted(a.vars_stack \cup a.vars_queue)
              ELSE k2
    IN k3
_identify_key_vars(a) ==
    LET k1 == IF a.vars_2d # {} THEN Take(Sorted(a.vars_2d), KeyVar2dCap) ELSE <<>>
        k2 == IF a.vars_1d # {} /\ Len(k1) < KeyVarCap
              THEN k1 \o Take(Sorted(a.vars_1d), KeyVarCap - Len(k1))
              ELSE k1
        k3 == IF (a.vars_stack # {} \/ a.vars_queue # {}) /\ Len(k2) < KeyVarCap
              THEN k2 \o Take(Sorted(a.vars_stack \cup a.vars_queue), KeyVarCap - Len(k2))
              ELSE k2
    IN k3

\* `self.vars_1d -= self.vars_2d`, the first statement of summarize().
Finalize_NoSubtract(a) == a
Finalize(a) == [a EXCEPT !.vars_1d = @ \ a.vars_2d]

\* The dictionary summarize() returns for a finalized analyzer.
SummaryOf(a) ==
    [vars_1d |-> Sorted(a.vars_1d), vars_2d |-> Sorted(a.vars_2d),
     vars_graph |-> Sorted(a.vars_graph), vars_tree |-> Sorted(a.vars_tree),
     vars_stack |-> Sorted(a.vars_stack), vars_queue |-> Sorted(a.vars_queue),
     vars_heap |-> Sorted(a.vars_heap),
     has_sorting |-> a.has_sorting, has_searching |-> a.has_searching,
     has_graph_traversal |-> a.has_graph_traversal,
     has_dp |-> a.has_dp, has_backtracking |-> a.has_backtracking,
     viz_type |-> _determine_viz_type(a),
     key_vars |-> _identify_key_vars(a),
     var_depth |-> a.var_depth]

NoSummary ==
    [vars_1d |-> <<>>, vars_2d |-> <<>>, vars_graph |-> <<>>, vars_tree |-> <<>>,
     vars_stack |-> <<>>, vars_queue |-> <<>>, vars_heap |-> <<>>,
     has_sorting |-> FALSE, has_searching |-> FALSE, has_graph_traversal |-> FALSE,
     has_dp |-> FALSE, has_backtracking |-> FALSE,
     viz_type |-> "", key_vars |-> <<>>, var_depth |-> [n \in NamesA |-> 0],
     var_sources |-> <<>>]

\* ---- the inputs of one traversal
AssignValues ==
    {ValList(<<>>), ValList(<<"Constant">>), ValList(<<"List">>),
     ValList(<<"List", "Constant">>),
     ValBinOp("Mult", "List", "Name"), ValBinOp("Mult", "Name", "Name"),
     ValBinOp("Add", "List", "List"),
     ValListComp(<<"Call">>), ValListComp(<<"Subscript">>),
     ValListComp(<<"Call", "Call">>), ValOther}
    \cup {ValCall(CallNode("Name", f, "", NoName)) : f \in {"deque", "sorted", "list", "len"}}
    \cup {ValName(n) : n \in NamesA}
Chains == {Chain(r, l) : r \in NamesA \cup {NoName}, l \in 1..MaxChain}
Iters ==
    {IterCall("range", NoName)}
    \cup {IterCall("enumerate", n) : n \in NamesA \cup {NoName}}
    \cup {IterName(n) : n \in NamesA}
    \cup {IterSub(c) : c \in Chains}
Methods == {"append", "popleft", "left", "add", "get", "sort"}
Calls ==
    {CallNode("Name", f, "", NoName) : f \in {"sort", "sorted", "bisect_left", "len"}}
    \cup {CallNode("Name", "heappush", "", n) : n \in NamesA \cup {NoName}}
    \cup {CallNode("Attr", "heapq", "heappush", n) : n \in NamesA}
    \cup {CallNode("Attr", n, "sort", NoName) : n \in NamesA}
    \cup {CallNode("Attr", "bisect", "bisect_left", NoName)}
SortCalls == {"sort", "sorted"}
BisectCalls == {"bisect", "bisect_left", "bisect_right"}

\* ---- the observer
ObsInit ==
    [depth |-> [n \in NamesA |-> 0], sort_call |-> FALSE,
     sorting_call |-> FALSE, searching_call |-> FALSE,
     compare |-> FALSE, swap |-> FALSE, fnames |-> {}]
ObsChain(o, chain) ==
    IF chain.root # NoName
    THEN [o EXCEPT !.depth[chain.root] = Max(@, chain.len)]
    ELSE o
\* a call of sort or sorted, bare or as a method of a variable, and a call of
\* a bisect function, bare or through the bisect module
IsSortingCall(call) ==
    \/ call.kind = "Name" /\ call.id \in SortCalls
    \/ call.kind = "Attr" /\ call.attr \in SortCalls
IsSearchingCall(call) ==
    \/ call.kind = "Name" /\ call.id \in BisectCalls
    \/ call.kind = "Attr" /\ call.id = "bisect" /\ call.attr \in BisectCalls
ObsCall(o, call) ==
    LET o1 == IF call.kind = "Name" /\ call.id \in {"sort", "sorted"}
              THEN [o EXCEPT !.sort_call = TRUE]
              ELSE o
    IN  [o1 EXCEPT !.sorting_call = @ \/ IsSortingCall(call),
                   !.searching_call = @ \/ IsSearchingCall(call)]

\* ========================= InstrumentedTranslator =========================
\* The translated program is a Python ast tree: every node is a record whose
\* field t is the node class and whose other fields are the fields of that
\* class which the translator reads.  Emitted JavaScript is kept as text cut
\* into tokens (identifiers, numbers and punctuation), so that f-strings are
\* concatenations and str.split / str.rstrip can be applied to it.

\* ---- expression nodes
Name(id)               == [t |-> "Name", id |-> id]
Constant(value)        == [t |-> "Constant", value |-> value]
USub(operand)          == [t |-> "UnaryOp", op |-> "USub", operand |-> operand]
BinOp(left, op, right) == [t |-> "BinOp", left |-> left, op |-> op, right |-> right]
Compare(left, op, right) ==
    [t |-> "Compare", left |-> left, op |-> op, right |-> right]
BoolOp(op, values)     == [t |-> "BoolOp", op |-> op, values |-> values]
Subscript(value, slice) == [t |-> "Subscript", value |-> value, slice |-> slice]
Attribute(value, attr) == [t |-> "Attribute", value |-> value, attr |-> attr]
Call(func, args)       == [t |-> "Call", func |-> func, args |-> args]
TupleNode(elts)        == [t |-> "Tuple", elts |-> elts]
\* an absent optional field (None in the ast)
NoNode                 == [t |-> "None"]
Slice(lower, upper, step) ==
    [t |-> "Slice", lower |-> lower, upper |-> upper, step |-> step]
comprehension(target, iter, ifs) ==
    [t |-> "comprehension", target |-> target, iter |-> iter, ifs |-> ifs]
ListComp(elt, generators) == [t |-> "ListComp", elt |-> elt, generators |-> generators]

\* ---- statement nodes
Assign(targets, value)       == [t |-> "Assign", targets |-> targets, value |-> value]
Expr(value)                  == [t |-> "Expr", value |-> value]
If(test, body, orelse)       == [t |-> "If", test |-> test, body |-> body, orelse |-> orelse]
For(target, iter, body)      == [t |-> "For", target |-> target, iter |-> iter, body |-> body]
While(test, body)            == [t |-> "While", test |-> test, body |-> body]
FunctionDef(name, args, body) ==
    [t |-> "FunctionDef", name |-> name, args |-> args, body |-> body]
AugAssign(target, op, value) ==
    [t |-> "AugAssign", target |-> target, op |-> op, value |-> value]
\* a node of a class of which the translator reads no field (Delete, Try,
\* Lambda, ...)
Node(class) == [t |-> class]

\* repr() of a non-negative int literal
Digits == <<"0", "1", "2", "3", "4", "5", "6", "7", "8", "9">>
Repr(n) == Digits[n + 1]

\* the value of an expression translation: the text and the helpers it asked for
R(text, helpers) == [js |-> text, h |-> helpers]
\* None, or a text that is falsy
NoResult == R(<<>>, {})

\* InstrumentedTranslator._subscript_chain
RECURSIVE ChainWalk(_, _)
ChainWalk(cur, idxs) ==
    IF cur.t = "Subscript"
    THEN LET idxs2 == <<cur.slice>> \o idxs
         IN  IF Len(idxs2) > SubscriptCap
             THEN [cur |-> cur.value, idxs |-> idxs2]
             ELSE ChainWalk(cur.value, idxs2)
    ELSE [cur |-> cur, idxs |-> idxs]
_subscript_chain(node) ==
    LET w == ChainWalk(node, <<>>)
    IN  [base |-> IF w.cur.t = "Name" THEN w.cur.id ELSE NoName, idxs |-> w.idxs]

\* the names _norm_idx takes for indices whatever the loop context
CanonicalIdx == {"i", "j", "k", "mid", "left", "right", "c", "r"}

BinOpText == [Add |-> " + ", Sub |-> " - ", Mult |-> " * ", Div |-> " / ", Mod |-> " % "]
CmpText == [Eq |-> " === ", NotEq |-> " !== ", Lt |-> " < ", LtE |-> " <= ",
            Gt |-> " > ", GtE |-> " >= "]

RECURSIVE js_expr(_, _)
RECURSIVE JoinExprs(_, _)
RECURSIVE _norm_idx(_, _, _)
RECURSIVE _handle_subscript(_, _)
RECURSIVE _handle_call(_, _)
RECURSIVE _handle_slice(_, _, _)
RECURSIVE _handle_list_comp(_, _)
RECURSIVE AndJoin(_, _)
RECURSIVE _handle_bool_op(_, _)

\* ", ".join(self.js_expr(e) for e in elts)
JoinExprs(ls, elts) ==
    IF elts = <<>> THEN R(<<>>, {})
    ELSE LET e == js_expr(ls, Head(elts))
             r == JoinExprs(ls, Tail(elts))
         IN  IF Tail(elts) = <<>> THEN e
             ELSE R(e.js \o <<", ">> \o r.js, e.h \cup r.h)

\* InstrumentedTranslator._norm_idx: ls is self.loop_stack, arr_js the text
\* of the indexed array.  ast has no negative int Constant (a literal -n is
\* a USub around Constant n), so the Constant case is the non-negative one.
_norm_idx(ls, arr_js, idx_node) ==
    IF idx_node.t = "Name"
       /\ (<<idx_node.id>> \in Range(ls) \/ idx_node.id \in CanonicalIdx)
    THEN R(<<idx_node.id>>, {})
    ELSE IF idx_node.t = "UnaryOp" /\ idx_node.op = "USub"
            /\ idx_node.operand.t = "Constant"
    THEN R(<<"(">> \o arr_js \o <<".", "length", " - ", Repr(idx_node.operand.value), ")">>, {})
    ELSE IF idx_node.t = "Constant"
    THEN R(<<Repr(idx_node.value)>>, {})
    ELSE IF idx_node.t = "BinOp" /\ idx_node.left.t = "Name"
            /\ <<idx_node.left.id>> \in Range(ls)
    THEN js_expr(ls, idx_node)
    ELSE LET e == js_expr(ls, idx_node)
         IN  R(<<"__idx", "(">> \o arr_js \o <<", ">> \o e.js \o <<")">>,
               e.h \cup {"IDX"})

\* InstrumentedTranslator._handle_slice: an absent bound is 0 or the length,
\* an absent step the empty text
_handle_slice_NoPlaceholder(ls, base, slc) ==
    LET lower == IF slc.lower # NoNode THEN js_expr(ls, slc.lower) ELSE R(<<"0">>, {})
        upper == IF slc.upper # NoNode THEN js_expr(ls, slc.upper)
                 ELSE R(<<base, ".", "length">>, {})
    IN  R(<<base, ".", "slice", "(">> \o lower.js \o <<", ">> \o upper.js \o <<")">>,
          lower.h \cup upper.h)
_handle_slice(ls, base, slc) ==
    LET lower == IF slc.lower # NoNode THEN js_expr(ls, slc.lower) ELSE R(<<"0">>, {})
        upper == IF slc.upper # NoNode THEN js_expr(ls, slc.upper)
                 ELSE R(<<base, ".", "length">>, {})
        step == IF slc.step # NoNode THEN js_expr(ls, slc.step) ELSE R(<<>>, {})
        sliced == <<base, ".", "slice", "(">> \o lower.js \o <<", ">> \o upper.js \o <<")">>
        h == lower.h \cup upper.h \cup step.h
    IN  IF step.js = <<>> \/ step.js = <<"1">> \/ step.js = <<"null">>
        THEN R(sliced, h)
        ELSE IF step.js = <<"-", "1">>
        THEN R(<<"__reversed", "(">> \o sliced \o <<")">>, h \cup {"REVERSED"})
        ELSE R(<<"/*slice_step*/ ">> \o sliced, h)

\* " && ".join(self.js_expr(c) for c in ifs)
AndJoin(ls, ifs) ==
    IF ifs = <<>> THEN R(<<>>, {})
    ELSE LET c == js_expr(ls, Head(ifs))
             r == AndJoin(ls, Tail(ifs))
         IN  IF Tail(ifs) = <<>> THEN c
             ELSE R(c.js \o <<" && ">> \o r.js, c.h \cup r.h)
\* InstrumentedTranslator._handle_list_comp
_handle_list_comp(ls, node) ==
    IF Len(node.generators) = 1
    THEN LET g == node.generators[1]
             it == js_expr(ls, g.iter)
             var == js_expr(ls, g.target)
             elt == js_expr(ls, node.elt)
             cond == AndJoin(ls, g.ifs)
             mapped == <<".", "map", "(", "(">> \o var.js \o <<")", " => ">> \o elt.js \o <<")">>
         IN  IF g.ifs # <<>>
             THEN R(it.js \o <<".", "filter", "(", "(">> \o var.js \o <<")", " => ", "(">>
                    \o cond.js \o <<")", ")">> \o mapped,
                    it.h \cup var.h \cup elt.h \cup cond.h)
             ELSE R(it.js \o mapped, it.h \cup var.h \cup elt.h)
    ELSE R(<<"/*listcomp*/">>, {})

\* InstrumentedTranslator._handle_bool_op
BoolOpText == [And |-> " && ", Or |-> " || "]
_handle_bool_op(ls, node) ==
    LET parts == [k \in 1..Len(node.values) |-> js_expr(ls, node.values[k])]
        RECURSIVE Join(_)
        Join(k) == IF k = Len(parts) THEN parts[k].js
                   ELSE parts[k].js \o <<BoolOpText[node.op]>> \o Join(k + 1)
    IN  R(<<"(">> \o Join(1) \o <<")">>, UNION {parts[k].h : k \in 1..Len(parts)})

\* InstrumentedTranslator._handle_subscript
_handle_subscript(ls, node) ==
    LET ch == _subscript_chain(node)
    IN  IF ch.base = NoName THEN R(<<"/*subscript*/">>, {})
        ELSE IF node.slice.t = "Slice" THEN _handle_slice(ls, ch.base, node.slice)
        ELSE IF Len(ch.idxs) = 1
        THEN LET i == _norm_idx(ls, <<ch.base>>, ch.idxs[1])
             IN  R(<<ch.base, "[">> \o i.js \o <<"]">>, i.h)
        ELSE IF Len(ch.idxs) = 2
        THEN LET i == _norm_idx(ls, <<ch.base>>, ch.idxs[1])
                 j == js_expr(ls, ch.idxs[2])
             IN  R(<<ch.base, "[">> \o i.js \o <<"]", "[">> \o j.js \o <<"]">>,
                   i.h \cup j.h)
        ELSE R(<<"/*multi_subscript*/">>, {})

\* InstrumentedTranslator._handle_builtin, for the builtins answered by a
\* helper: the text and the flags, NoResult for `return None`
RECURSIVE _handle_builtin(_, _, _)
_handle_builtin(ls, fname, node) ==
    LET args == JoinExprs(ls, node.args)
        Helper(name, flag) ==
            LET a == js_expr(ls, node.args[1])
            IN  R(<<name, "(">> \o a.js \o <<")">>, a.h \cup {flag})
        Helper2(name, flag) ==
            LET a == js_expr(ls, node.args[1])
                b == js_expr(ls, node.args[2])
            IN  R(<<name, "(">> \o a.js \o <<", ">> \o b.js \o <<")">>, a.h \cup b.h \cup {flag})
    IN  IF node.args = <<>> THEN NoResult
        ELSE IF fname = "sum" THEN Helper("__sum", "SUM")
        ELSE IF fname = "sorted" THEN Helper("__sorted", "SORTED")
        ELSE IF fname = "reversed" THEN Helper("__reversed", "REVERSED")
        ELSE IF fname = "zip"
        THEN R(<<"__zip", "(">> \o args.js \o <<")">>, args.h \cup {"ZIP"})
        ELSE IF fname = "defaultdict"
        THEN R(<<"__defaultdict", "(", "() => []", ")">>, {"DEFAULTDICT"})
        ELSE IF fname = "Counter" THEN Helper("__counter", "COUNTER")
        ELSE IF fname = "heappush" /\ Len(node.args) = 2 THEN Helper2("__heappush", "HEAP")
        ELSE IF fname = "heappop" THEN Helper("__heappop", "HEAP")
        ELSE NoResult

\* InstrumentedTranslator._handle_call, for len, heapq, the builtins above,
\* the generic function call and the method call
_handle_call(ls, node) ==
    LET args == JoinExprs(ls, node.args)
        heapq == node.func.t = "Attribute" /\ node.func.value.t = "Name"
                 /\ node.func.value.id = "heapq"
        heap == IF heapq THEN {"HEAP"} ELSE {}
    IN  IF node.func.t = "Name" /\ node.func.id = "len" /\ node.args # <<>>
        THEN LET a == js_expr(ls, node.args[1]) IN R(a.js \o <<".", "length">>, a.h)
        ELSE IF heapq /\ node.func.attr = "heappush"
        THEN LET a == js_expr(ls, node.args[1])
                 b == js_expr(ls, node.args[2])
             IN  R(<<"__heappush", "(">> \o a.js \o <<", ">> \o b.js \o <<")">>,
                   a.h \cup b.h \cup heap)
        ELSE IF heapq /\ node.func.attr = "heappop"
        THEN LET a == js_expr(ls, node.args[1])
             IN  R(<<"__heappop", "(">> \o a.js \o <<")">>, a.h \cup heap)
        ELSE IF node.func.t = "Name"
        THEN LET builtin_result == _handle_builtin(ls, node.func.id, node)
             IN  IF builtin_result # NoResult THEN builtin_result
                 ELSE R(<<node.func.id, "(">> \o args.js \o <<")">>, args.h)
        ELSE IF node.func.t = "Attribute"
        THEN LET obj == js_expr(ls, node.func.value)
             IN  IF node.func.attr = "appendleft"
                 THEN R(obj.js \o <<".", "unshift", "(">> \o args.js \o <<")">>,
                        obj.h \cup args.h \cup heap)
                 ELSE IF node.func.attr = "popleft"
                 THEN R(obj.js \o <<".", "shift", "(", ")">>, obj.h \cup args.h \cup heap)
                 ELSE R(obj.js \o <<".", node.func.attr, "(">> \o args.js \o <<")">>,
                        obj.h \cup args.h \cup heap)
        ELSE R(<<"/*call*/">>, {})

\* InstrumentedTranslator.js_expr with _handle_constant, _handle_unary_op,
\* _handle_binary_op and _handle_compare
js_expr(ls, node) ==
    IF node.t = "Constant" THEN R(<<Repr(node.value)>>, {})
    ELSE IF node.t = "Name" THEN R(<<node.id>>, {})
    ELSE IF node.t = "UnaryOp"
    THEN IF node.operand.t = "Constant"
         THEN R(<<"-", Repr(node.operand.value)>>, {})
         ELSE LET e == js_expr(ls, node.operand)
              IN  R(<<"-", "(">> \o e.js \o <<")">>, e.h)
    ELSE IF node.t = "BinOp"
    THEN LET L == js_expr(ls, node.left)
             Rt == js_expr(ls, node.right)
         IN  IF node.op = "FloorDiv"
             THEN R(<<"Math.floor", "(">> \o L.js \o <<" / ">> \o Rt.js \o <<")">>,
                    L.h \cup Rt.h)
             ELSE R(<<"(">> \o L.js \o <<BinOpText[node.op]>> \o Rt.js \o <<")">>,
                    L.h \cup Rt.h)
    ELSE IF node.t = "Compare"
    THEN LET L == js_expr(ls, node.left)
             Rt == js_expr(ls, node.right)
         IN  R(<<"(", "(">> \o L.js \o <<CmpText[node.op]>> \o Rt.js \o <<")", ")">>,
               L.h \cup Rt.h)
    ELSE IF node.t = "BoolOp" THEN _handle_bool_op(ls, node)
    ELSE IF node.t = "Subscript" THEN _handle_subscript(ls, node)
    ELSE IF node.t = "Attribute"
    THEN LET v == js_expr(ls, node.value) IN R(v.js \o <<".", node.attr>>, v.h)
    ELSE IF node.t = "Call" THEN _handle_call(ls, node)
    ELSE IF node.t = "Tuple"
    THEN LET e == JoinExprs(ls, node.elts) IN R(<<"[">> \o e.js \o <<"]">>, e.h)
    ELSE IF node.t = "ListComp" THEN _handle_list_comp(ls, node)
    ELSE R(<<"/*expr*/">>, {})

\* ---- sequences
RECURSIVE Flatten(_)
Flatten(ss) == IF ss = <<>> THEN <<>> ELSE Head(ss) \o Flatten(Tail(ss))
\* the elements of s in order of first appearance
RECURSIVE Unique(_, _)
Unique(s, seen) ==
    IF s = <<>> THEN <<>>
    ELSE IF Head(s) \in seen THEN Unique(Tail(s), seen)
    ELSE <<Head(s)>> \o Unique(Tail(s), seen \cup {Head(s)})
\* every ordering of a set, as Python may iterate it
Orderings(S) ==
    {s \in [1..Cardinality(S) -> S] : \A i, j \in 1..Cardinality(S) : i # j => s[i] # s[j]}
AnyOrder(S) == CHOOSE s \in Orderings(S) : TRUE

\* ---- ast.walk: breadth first, children in field order
Children(node) ==
    CASE node.t = "UnaryOp"     -> <<node.operand>>
      [] node.t = "BinOp"       -> <<node.left, node.right>>
      [] node.t = "Compare"     -> <<node.left, node.right>>
      [] node.t = "BoolOp"      -> node.values
      [] node.t = "Subscript"   -> <<node.value, node.slice>>
      [] node.t = "Attribute"   -> <<node.value>>
      [] node.t = "Call"        -> <<node.func>> \o node.args
      [] node.t = "Tuple"       -> node.elts
      [] node.t = "Slice"       ->
            LET Present(n) == n # NoNode
            IN  SelectSeq(<<node.lower, node.upper, node.step>>, Present)
      [] node.t = "ListComp"    -> <<node.elt>> \o node.generators
      [] node.t = "comprehension" -> <<node.target, node.iter>> \o node.ifs
      [] node.t = "Assign"      -> node.targets \o <<node.value>>
      [] node.t = "AugAssign"   -> <<node.target, node.value>>
      [] node.t = "Expr"        -> <<node.value>>
      [] node.t = "If"          -> <<node.test>> \o node.body \o node.orelse
      [] node.t = "For"         -> <<node.target, node.iter>> \o node.body
      [] node.t = "While"       -> <<node.test>> \o node.body
      [] node.t = "FunctionDef" -> node.body
      [] node.t = "Return"      -> IF node.value = NoNode THEN <<>> ELSE <<node.value>>
      [] OTHER                  -> <<>>
RECURSIVE WalkQueue(_)
WalkQueue(queue) ==
    IF queue = <<>> THEN <<>>
    ELSE <<Head(queue)>> \o WalkQueue(Tail(queue) \o Children(Head(queue)))
Walk(node) == WalkQueue(<<node>>)
\* the nodes of a tree in document order
RECURSIVE DocWalk(_)
DocWalk(node) ==
    <<node>> \o Flatten([k \in 1..Len(Children(node)) |-> DocWalk(Children(node)[k])])
IsSubscript(node) == node.t = "Subscript"
\* the (base, idxs) of the subscripts met by ast.walk that have a Name base
SubscriptsIn(node) ==
    LET chains == [k \in 1..Len(SelectSeq(Walk(node), IsSubscript)) |->
                      _subscript_chain(SelectSeq(Walk(node), IsSubscript)[k])]
        Based(ch) == ch.base # NoName /\ ch.idxs # <<>>
    IN  SelectSeq(chains, Based)

\* ---- _collect_param_bindings
\* an empty dict
EmptyMap == [x \in {} |-> NoName]
NoBindings == [keys |-> <<>>, map |-> EmptyMap]
IsDef(stmt) == stmt.t = "FunctionDef"
IsNameCall(stmt) == stmt.t = "Expr" /\ stmt.value.t = "Call" /\ stmt.value.func.t = "Name"
\* func_params and func_bodies: the last definition of a name wins
LastDef(body, fname) ==
    body[CHOOSE i \in 1..Len(body) :
            /\ IsDef(body[i]) /\ body[i].name = fname
            /\ \A j \in (i + 1)..Len(body) : ~(IsDef(body[j]) /\ body[j].name = fname)]
DefNames(body) == {body[i].name : i \in {k \in 1..Len(body) : IsDef(body[k])}}
\* the map of one call: parameter -> ArgOf(argument), None past the arguments
ArgMap(params, args, ArgOf(_)) ==
    [p \in Range(params) |->
        LET i == CHOOSE k \in 1..Len(params) : params[k] = p
        IN  IF i <= Len(args) THEN ArgOf(args[i]) ELSE NoName]
Bind(b, fname, m) ==
    [keys |-> Append(b.keys, fname),
     map |-> [f \in Range(b.keys) \cup {fname} |-> IF f = fname THEN m ELSE b.map[f]]]
NameOrNone(a) == IF a.t = "Name" THEN a.id ELSE NoName
\* "Collect top-level calls"
RECURSIVE CollectTopLevel(_, _, _)
CollectTopLevel(body, rest, b) ==
    IF rest = <<>> THEN b
    ELSE LET stmt == Head(rest)
         IN  IF IsNameCall(stmt) /\ stmt.value.func.id \in DefNames(body)
                /\ stmt.value.func.id \notin Range(b.keys)
             THEN CollectTopLevel(body, Tail(rest),
                      Bind(b, stmt.value.func.id,
                           ArgMap(LastDef(body, stmt.value.func.id).args,
                                  stmt.value.args, NameOrNone)))
             ELSE CollectTopLevel(body, Tail(rest), b)
\* "Propagate one level deep": the calls in the body of one bound function
RECURSIVE PropagateBody(_, _, _, _)
PropagateBody(body, rest, param_map, b) ==
    IF rest = <<>> THEN b
    ELSE LET stmt == Head(rest)
             Through(a) == IF a.t = "Name" /\ a.id \in DOMAIN param_map
                           THEN param_map[a.id] ELSE NoName
         IN  IF IsNameCall(stmt) /\ stmt.value.func.id \in DefNames(body)
                /\ stmt.value.func.id \notin Range(b.keys)
             THEN PropagateBody(body, Tail(rest), param_map,
                      Bind(b, stmt.value.func.id,
                           ArgMap(LastDef(body, stmt.value.func.id).args,
                                  stmt.value.args, Through)))
             ELSE PropagateBody(body, Tail(rest), param_map, b)
\* a propagation that goes on through the functions it has just bound
RECURSIVE Propagate_Transitive(_, _, _)
Propagate_Transitive(body, fnames, b) ==
    IF fnames = <<>> THEN b
    ELSE LET b2 == PropagateBody(body, LastDef(body, Head(fnames)).body,
                                 b.map[Head(fnames)], b)
         IN  Propagate_Transitive(body,
                 Tail(fnames) \o SubSeq(b2.keys, Len(b.keys) + 1, Len(b2.keys)), b2)
RECURSIVE Propagate(_, _, _)
Propagate(body, fnames, b) ==
    IF fnames = <<>> THEN b
    ELSE Propagate(body, Tail(fnames),
             PropagateBody(body, LastDef(body, Head(fnames)).body,
                           b.map[Head(fnames)], b))
_collect_param_bindings(body) ==
    LET top == CollectTopLevel(body, body, NoBindings)
    IN  Propagate(body, top.keys, top).map

\* ---- the translator instance
\* InstrumentedTranslator.__init__
TranslatorNew(traceable_1d, traceable_2d, param_bindings) ==
    [lines |-> <<>>, ind |-> 0, tmp_counter |-> 0,
     scope_stack |-> <<{}>>, func_stack |-> <<>>,
     traceable_1d |-> traceable_1d, traceable_2d |-> traceable_2d,
     param_bindings |-> param_bindings,
     helpers_needed |-> {}, loop_stack |-> <<>>]

Line(ind, text) == [ind |-> ind, text |-> text]
emit(tr, s) == [tr EXCEPT !.lines = Append(@, Line(tr.ind, s))]
RECURSIVE EmitAll(_, _)
EmitAll(tr, ss) == IF ss = <<>> THEN tr ELSE EmitAll(emit(tr, Head(ss)), Tail(ss))
Need(tr, helpers) == [tr EXCEPT !.helpers_needed = @ \cup helpers]
Indent(tr, d) == [tr EXCEPT !.ind = @ + d]
Top(s) == s[Len(s)]
Pop(s) == SubSeq(s, 1, Len(s) - 1)

_is_declared(tr, name) == \E k \in 1..Len(tr.scope_stack) : name \in tr.scope_stack[k]
_declare(tr, name) == [tr EXCEPT !.scope_stack[Len(tr.scope_stack)] = @ \cup {name}]
_emit_decl_or_assign(tr, name, rhs_js) ==
    IF _is_declared(tr, name)
    THEN emit(tr, <<name, " = ">> \o rhs_js \o <<";">>)
    ELSE _declare(emit(tr, <<"let ", name, " = ">> \o rhs_js \o <<";">>), name)

_mapped_tracer_base(tr, base_name) ==
    IF tr.func_stack # <<>>
    THEN LET fname == Top(tr.func_stack)
             m == IF fname \in DOMAIN tr.param_bindings
                  THEN tr.param_bindings[fname] ELSE EmptyMap
             arg == IF base_name \in DOMAIN m THEN m[base_name] ELSE NoName
         IN  IF arg # NoName THEN arg ELSE base_name
    ELSE base_name

\* the identifier a text is, for the sites that look a text up among names
TextName(text) == IF Len(text) = 1 THEN text[1] ELSE NoName

\* ---- emitted texts
RECURSIVE CommaJoin(_)
CommaJoin(texts) ==
    IF texts = <<>> THEN <<>>
    ELSE IF Tail(texts) = <<>> THEN Head(texts)
    ELSE Head(texts) \o <<", ">> \o CommaJoin(Tail(texts))
\* f"{tracer_base}Tracer.{method}({args});"
TracerCall(tracer_base, method, args) ==
    <<tracer_base, "Tracer", ".", method, "(">> \o CommaJoin(args) \o <<")", ";">>
\* "Tracer.delay();"
Delay == <<"Tracer", ".", "delay", "(", ")", ";">>
\* f"logger.println('{message}');"
Println(message) == <<"logger", ".", "println", "(", "'">> \o message \o <<"'", ")", ";">>

\* ---- str.split('[') and str.rstrip(']') on a text
HasBracket(text) == "[" \in Range(text)
\* text.split('[')[0]
BeforeBracket(text) ==
    SubSeq(text, 1, (CHOOSE k \in 1..Len(text) :
                        text[k] = "[" /\ \A l \in 1..(k - 1) : text[l] # "[") - 1)
\* text.split('[')[1]
AfterBracket(text) ==
    LET k == CHOOSE k \in 1..Len(text) : text[k] = "[" /\ \A l \in 1..(k - 1) : text[l] # "["
        rest == SubSeq(text, k + 1, Len(text))
    IN  IF HasBracket(rest) THEN BeforeBracket(rest) ELSE rest
RECURSIVE RStrip(_)
RStrip(text) ==
    IF text # <<>> /\ text[Len(text)] = "]" THEN RStrip(Pop(text)) ELSE text

\* ---- visit_Assign and what it calls
\* the names the programs use that contain "defaultdict"
DefaultdictNames == {"defaultdict_map"}

\* the tracer lines of a swap (the body of `if tracer_base in self.traceable_1d`)
SwapTrace_DepatchOnce(tracer_base, idx1, idx2, first_expr, second_expr) ==
    << Println(<<"Swap elements at ">> \o idx1 \o <<" and ">> \o idx2),
       TracerCall(tracer_base, "patch", <<idx1, first_expr>>),
       TracerCall(tracer_base, "patch", <<idx2, second_expr>>),
       Delay,
       TracerCall(tracer_base, "depatch", <<idx1>>) >>
SwapTrace(tracer_base, idx1, idx2, first_expr, second_expr) ==
    << Println(<<"Swap elements at ">> \o idx1 \o <<" and ">> \o idx2),
       TracerCall(tracer_base, "patch", <<idx1, first_expr>>),
       TracerCall(tracer_base, "patch", <<idx2, second_expr>>),
       Delay,
       TracerCall(tracer_base, "depatch", <<idx1>>),
       TracerCall(tracer_base, "depatch", <<idx2>>) >>

RECURSIVE DeclAll(_, _, _)
DeclAll(tr, names, rhs) ==
    IF names = <<>> THEN tr
    ELSE DeclAll(_emit_decl_or_assign(tr, Head(names), Head(rhs)), Tail(names), Tail(rhs))

IsNameNode(node) == node.t = "Name"
_handle_destructuring(tr, target, value) ==
    LET nameNodes == SelectSeq(target.elts, IsNameNode)
        names == [k \in 1..Len(nameNodes) |-> nameNodes[k].id]
        subscripts == SelectSeq(target.elts, IsSubscript)
        ls == tr.loop_stack
    IN  IF /\ Len(subscripts) >= 2 /\ value.t = "Tuple"
           /\ Len(value.elts) = Len(target.elts)
           /\ \A k \in 1..Len(subscripts) : value.elts[k].t = "Subscript"
        THEN      LET lefts == [k \in 1..Len(target.elts) |-> js_expr(ls, target.elts[k])]
                      rights == [k \in 1..Len(value.elts) |-> js_expr(ls, value.elts[k])]
                      helpers == UNION {lefts[k].h \cup rights[k].h : k \in 1..Len(lefts)}
                      tr1 == emit(Need(tr, helpers),
                                  <<"[">> \o CommaJoin([k \in 1..Len(lefts) |-> lefts[k].js])
                                  \o <<"]", " = ", "[">>
                                  \o CommaJoin([k \in 1..Len(rights) |-> rights[k].js])
                                  \o <<"]", ";">>)
                      first_expr == lefts[1].js
                      second_expr == lefts[2].js
                  IN  IF Len(lefts) = 2 /\ HasBracket(first_expr) /\ HasBracket(second_expr)
                         /\ BeforeBracket(first_expr) = BeforeBracket(second_expr)
                         /\ _mapped_tracer_base(tr, TextName(BeforeBracket(first_expr)))
                                \in tr.traceable_1d
                      THEN EmitAll(tr1,
                               SwapTrace(_mapped_tracer_base(tr, TextName(BeforeBracket(first_expr))),
                                         RStrip(AfterBracket(first_expr)),
                                         RStrip(AfterBracket(second_expr)),
                                         first_expr, second_expr))
                      ELSE tr1
        ELSE IF value.t = "Tuple" /\ Len(value.elts) = Len(names)
        THEN LET rhs == [k \in 1..Len(names) |-> js_expr(ls, value.elts[k])]
             IN  DeclAll(Need(tr, UNION {rhs[k].h : k \in 1..Len(rhs)}), names,
                         [k \in 1..Len(rhs) |-> rhs[k].js])
        ELSE LET tmp == "__tmp" \o Repr(tr.tmp_counter + 1)
                 v == js_expr(ls, value)
                 tr1 == emit(Need([tr EXCEPT !.tmp_counter = @ + 1], v.h),
                             <<"const ", tmp, " = ">> \o v.js \o <<";">>)
             IN  DeclAll(tr1, names, [k \in 1..Len(names) |-> <<tmp, "[", Repr(k - 1), "]">>])

_handle_subscript_assign(tr, target, value) ==
    LET ch == _subscript_chain(target)
        base == ch.base
        ls == tr.loop_stack
        rhs == js_expr(ls, value)
        tracer_base == _mapped_tracer_base(tr, base)
    IN  IF base = NoName THEN Need(tr, rhs.h)
        ELSE IF Len(ch.idxs) = 1
        THEN LET idx_js == js_expr(ls, ch.idxs[1])
                 tr1 == Need(tr, rhs.h \cup idx_js.h)
                 tr2 == IF base \in DefaultdictNames
                        THEN emit(tr1, <<base, "[">> \o idx_js.js
                                       \o <<"]", ".", "push", "(">> \o rhs.js \o <<")", ";">>)
                        ELSE emit(tr1, <<base, "[">> \o idx_js.js
                                       \o <<"]", " = ">> \o rhs.js \o <<";">>)
             IN  IF tracer_base \in tr.traceable_1d
                 THEN EmitAll(tr2,
                        << <<"logger", ".", "println", "(", "'", "Update ", base, "[", "'", " + ">>
                              \o idx_js.js \o <<" + ", "'", "]", " = ", "'", " + ">>
                              \o rhs.js \o <<")", ";">>,
                           TracerCall(tracer_base, "patch", <<idx_js.js, rhs.js>>),
                           Delay,
                           TracerCall(tracer_base, "depatch", <<idx_js.js>>) >>)
                 ELSE tr2
        ELSE IF Len(ch.idxs) = 2
        THEN LET i == _norm_idx(ls, <<base>>, ch.idxs[1])
                 j == js_expr(ls, ch.idxs[2])
                 tr1 == emit(Need(tr, rhs.h \cup i.h \cup j.h),
                             <<base, "[">> \o i.js \o <<"]", "[">> \o j.js
                             \o <<"]", " = ">> \o rhs.js \o <<";">>)
             IN  IF tracer_base \in tr.traceable_2d
                 THEN EmitAll(tr1,
                        << <<"logger", ".", "println", "(", "'", "Update ", base, "[", "'", " + ">>
                              \o i.js \o <<" + ", "'", "]", "[", "'", " + ">> \o j.js
                              \o <<" + ", "'", "]", " = ", "'", " + ">> \o rhs.js \o <<")", ";">>,
                           TracerCall(tracer_base, "patch", <<i.js, j.js, rhs.js>>),
                           Delay,
                           TracerCall(tracer_base, "depatch", <<i.js, j.js>>) >>)
                 ELSE tr1
        ELSE Need(tr, rhs.h)

visit_Assign(tr, node) ==
    IF Len(node.targets) # 1 THEN tr
    ELSE LET target == node.targets[1]
         IN  IF target.t = "Tuple" THEN _handle_destructuring(tr, target, node.value)
             ELSE IF target.t = "Name"
             THEN LET rhs_js == js_expr(tr.loop_stack, node.value)
                  IN  _emit_decl_or_assign(Need(tr, rhs_js.h), target.id, rhs_js.js)
             ELSE IF target.t = "Subscript"
             THEN _handle_subscript_assign(tr, target, node.value)
             ELSE tr

\* ---- visit_Expr
visit_Expr(tr, node) ==
    LET call == node.value
        ls == tr.loop_stack
    IN  IF call.t = "Call" /\ call.func.t = "Attribute" /\ call.func.attr = "append"
        THEN LET base == js_expr(ls, call.func.value)
                 arg_js == IF call.args # <<>> THEN js_expr(ls, call.args[1])
                           ELSE R(<<"undefined">>, {})
                 tr1 == emit(Need(tr, base.h \cup arg_js.h),
                             base.js \o <<".", "push", "(">> \o arg_js.js \o <<")", ";">>)
                 tracer_base == _mapped_tracer_base(tr, TextName(base.js))
                 last_idx == base.js \o <<".", "length", " - ", "1">>
             IN  IF tracer_base \in tr.traceable_1d
                 THEN EmitAll(tr1,
                        << Println(<<"Append ">> \o arg_js.js \o <<" to ">> \o base.js),
                           TracerCall(tracer_base, "patch", <<last_idx, arg_js.js>>),
                           Delay,
                           TracerCall(tracer_base, "depatch", <<last_idx>>) >>)
                 ELSE tr1
        ELSE IF call.t = "Call" /\ call.func.t = "Name" /\ call.func.id = "print"
        THEN LET msg == IF call.args # <<>> THEN js_expr(ls, call.args[1])
                        ELSE R(<<"''">>, {})
             IN  emit(Need(tr, msg.h), <<"logger", ".", "println", "(">> \o msg.js \o <<")", ";">>)
        ELSE LET v == js_expr(ls, node.value)
             IN  emit(Need(tr, v.h), v.js \o <<";">>)

\* ---- visit_AugAssign
visit_AugAssign(tr, node) ==
    LET target_js == js_expr(tr.loop_stack, node.target)
        value_js == js_expr(tr.loop_stack, node.value)
    IN  IF node.op \in DOMAIN BinOpText
        THEN emit(Need(tr, target_js.h \cup value_js.h),
                  target_js.js \o <<" = ", "(">> \o target_js.js \o <<BinOpText[node.op]>>
                  \o value_js.js \o <<")", ";">>)
        ELSE emit(Need(tr, target_js.h \cup value_js.h), <<"/* unsupported augassign */">>)

\* ---- ast.NodeVisitor.visit: the classes that have a visit_<class> method;
\* ---- visit_Break, visit_Continue, visit_Return
visit_Break(tr) == emit(tr, <<"break", ";">>)
visit_Continue(tr) == emit(tr, <<"continue", ";">>)
visit_Return(ls, tr, node) ==
    IF node.value = NoNode
    THEN EmitAll(tr, << Println(<<"← return">>), <<"return", ";">> >>)
    ELSE LET v_js == js_expr(ls, node.value)
         IN  EmitAll(Need(tr, v_js.h),
                     << <<"logger", ".", "println", "(", "'", "← return ", "'", " + ",
                          "JSON.stringify", "(">> \o v_js.js \o <<")", ")", ";">>,
                        <<"return", " ">> \o v_js.js \o <<";">> >>)

\* every other node goes to generic_visit
Visitors == {"Module", "ClassDef", "FunctionDef", "Assign", "AugAssign", "If", "For",
             "While", "Expr", "Break", "Continue", "Pass", "Return"}
\* InstrumentedTranslator.generic_visit: `pass`, the children are not visited
generic_visit(tr, node) == tr

\* ---- visit_If
\* by_base: the index texts of the chains of one base, in the order met
IndicesOf(chains, base, TextsOf(_)) ==
    LET OfBase(ch) == ch.base = base
        mine == SelectSeq(chains, OfBase)
    IN  Flatten([k \in 1..Len(mine) |-> TextsOf(mine[k])])
BasesOf(chains) == Unique([k \in 1..Len(chains) |-> chains[k].base], {})

_extract_comparison_indices(tr, test_node) ==
    IF test_node.t # "Compare" THEN R(<<>>, {})
    ELSE LET ls == tr.loop_stack
             Grouped(ch) == Len(ch.idxs) \in {1, 2}
             chains == SelectSeq(SubscriptsIn(test_node), Grouped)
             TextsOf(ch) == [k \in 1..Len(ch.idxs) |-> js_expr(ls, ch.idxs[k]).js]
             bases == BasesOf(chains)
             Enough(base) == Len(Unique(IndicesOf(chains, base, TextsOf), {})) >= 2
             kept == SelectSeq(bases, Enough)
         IN  R([k \in 1..Len(kept) |->
                   [base |-> kept[k],
                    indices |-> Take(Unique(IndicesOf(chains, kept[k], TextsOf), {}), 2)]],
               UNION {UNION {js_expr(ls, chains[k].idxs[l]).h : l \in 1..Len(chains[k].idxs)}
                      : k \in 1..Len(chains)})

\* the select (or deselect) lines of visit_If for its select_info
RECURSIVE IfTracerLines_GateOnSourceName(_, _, _)
IfTracerLines_GateOnSourceName(tr, select_info, method) ==
    IF select_info = <<>> THEN <<>>
    ELSE LET tracer_base == _mapped_tracer_base(tr, Head(select_info).base)
             indices == Head(select_info).indices
         IN  (IF Head(select_info).base \in tr.traceable_1d \cup tr.traceable_2d
                 /\ Len(indices) = 2
              THEN <<TracerCall(tracer_base, method, indices)>>
              ELSE <<>>)
             \o IfTracerLines_GateOnSourceName(tr, Tail(select_info), method)
RECURSIVE IfTracerLines(_, _, _)
IfTracerLines(tr, select_info, method) ==
    IF select_info = <<>> THEN <<>>
    ELSE LET tracer_base == _mapped_tracer_base(tr, Head(select_info).base)
             indices == Head(select_info).indices
         IN  (IF tracer_base \in tr.traceable_1d /\ Len(indices) = 2
              THEN <<TracerCall(tracer_base, method, indices)>>
              ELSE IF tracer_base \in tr.traceable_2d /\ Len(indices) = 2
              THEN <<TracerCall(tracer_base, method, indices)>>
              ELSE <<>>)
             \o IfTracerLines(tr, Tail(select_info), method)

\* visit_If down to the visit of node.body
If_enter(tr, node) ==
    LET cond == js_expr(tr.loop_stack, node.test)
        select_info == _extract_comparison_indices(tr, node.test)
        tr1 == Need(tr, cond.h \cup select_info.h)
        tr2 == IF select_info.js # <<>>
               THEN emit(EmitAll(tr1, IfTracerLines(tr1, select_info.js, "select")), Delay)
               ELSE tr1
    IN  Indent(emit(tr2, <<"if ", "(">> \o cond.js \o <<")", " {">>), 1)
\* visit_If between node.body and node.orelse
If_else(tr) == Indent(emit(Indent(tr, -1), <<"}", " else ", "{">>), 1)
\* visit_If after the last branch
If_exit_NoDeselect(tr, select_info) == emit(Indent(tr, -1), <<"}">>)
If_exit(tr, select_info) ==
    LET tr1 == emit(Indent(tr, -1), <<"}">>)
    IN  EmitAll(tr1, IfTracerLines(tr1, select_info, "deselect"))

\* ---- visit_For
_find_primary_array_in_loop(tr, body) ==
    LET chains == Flatten([k \in 1..Len(body) |-> SubscriptsIn(body[k])])
        Traceable(ch) == ch.base \in tr.traceable_1d \/ ch.base \in tr.traceable_2d
        found == SelectSeq(chains, Traceable)
    IN  IF found = <<>> THEN NoName ELSE found[1].base

IsRange(it) == it.t = "Call" /\ it.func.t = "Name" /\ it.func.id = "range"

\* the for-of branch of visit_For down to the visit of node.body
ForOf_enter(tr, node) ==
    LET loop_var == js_expr(tr.loop_stack, node.target)
        iterable_js == js_expr(tr.loop_stack, node.iter)
        tr1 == Need(tr, loop_var.h \cup iterable_js.h)
        tr2 == IF node.target.t = "Name" /\ ~_is_declared(tr1, TextName(loop_var.js))
               THEN _declare(emit(tr1, <<"for ", "(", "let ">> \o loop_var.js \o <<" of ">>
                                       \o iterable_js.js \o <<")", " {">>),
                             TextName(loop_var.js))
               ELSE emit(tr1, <<"for ", "(">> \o loop_var.js \o <<" of ">>
                              \o iterable_js.js \o <<")", " {">>)
    IN  [Indent(tr2, 1) EXCEPT !.loop_stack = Append(@, loop_var.js)]
ForOf_exit(tr) == emit(Indent([tr EXCEPT !.loop_stack = Pop(@)], -1), <<"}">>)

\* _handle_range_loop down to the visit of node.body.  The step of a
\* three-argument range is an ast.Constant only when it is not negative (a
\* literal -n is a UnaryOp), so the comparison is always "<".  No name of the
\* programs contains "let", so `"let" in init` is the `let` just written.
RangeHeader(tr, node, loop_var, argjs) ==
    LET fresh == node.target.t = "Name" /\ ~_is_declared(tr, TextName(loop_var))
        Init0(a) == IF fresh THEN <<"let ">> \o loop_var \o <<" = ">> \o a
                    ELSE loop_var \o <<" = ">> \o a
    IN  IF Len(argjs) = 1
        THEN [init |-> Init0(<<"0">>), test |-> loop_var \o <<" < ">> \o argjs[1].js,
              step |-> loop_var \o <<"++">>, let |-> fresh]
        ELSE IF Len(argjs) = 2
        THEN [init |-> Init0(argjs[1].js), test |-> loop_var \o <<" < ">> \o argjs[2].js,
              step |-> loop_var \o <<"++">>, let |-> fresh]
        ELSE IF Len(argjs) = 3
        THEN [init |-> Init0(argjs[1].js),
              test |-> loop_var \o <<" < ">> \o argjs[2].js,
              step |-> loop_var \o <<" += ">> \o argjs[3].js, let |-> fresh]
        ELSE [init |-> <<"let ", "i", " = ", "0">>, test |-> <<"i", " < ", "0">>,
              step |-> <<"i", "++">>, let |-> TRUE]
\* the declaration of the loop variable, the `for (...) {` line, the indent
\* and the push on loop_stack
RangeOpen(tr, node, loop_var, argjs, hdr) ==
    LET tr1 == Need(tr, UNION {argjs[k].h : k \in 1..Len(argjs)})
        tr2 == IF node.target.t = "Name" /\ hdr.let
               THEN _declare(tr1, TextName(loop_var)) ELSE tr1
    IN  [Indent(emit(tr2, <<"for ", "(">> \o hdr.init \o <<"; ">> \o hdr.test
                          \o <<"; ">> \o hdr.step \o <<")", " {">>), 1)
           EXCEPT !.loop_stack = Append(@, loop_var)]
\* the select on the loop variable for a traceable primary array
RangeSelect(tr, loop_var, primary_array) ==
    IF primary_array # NoName
       /\ _mapped_tracer_base(tr, primary_array) \in tr.traceable_1d
    THEN EmitAll(tr, << TracerCall(_mapped_tracer_base(tr, primary_array),
                                   "select", <<loop_var>>),
                        Delay >>)
    ELSE tr
RangeBody(tr, node, loop_var) ==
    RangeSelect(tr, loop_var, _find_primary_array_in_loop(tr, node.body))
RangeLoop(tr, node, loop_var, argjs) ==
    RangeBody(RangeOpen(tr, node, loop_var, argjs, RangeHeader(tr, node, loop_var, argjs)),
              node, loop_var)
_handle_range_loop(tr, node) ==
    RangeLoop(tr, node, js_expr(tr.loop_stack, node.target).js,
              [k \in 1..Len(node.iter.args) |-> js_expr(tr.loop_stack, node.iter.args[k])])
\* _handle_range_loop after the visit of node.body
Range_exit(tr, node, loop_var) ==
    LET primary_array == _find_primary_array_in_loop(tr, node.body)
        tr1 == IF primary_array # NoName
                  /\ _mapped_tracer_base(tr, primary_array) \in tr.traceable_1d
               THEN emit(tr, TracerCall(_mapped_tracer_base(tr, primary_array),
                                        "deselect", <<loop_var>>))
               ELSE tr
    IN  emit(Indent([tr1 EXCEPT !.loop_stack = Pop(@)], -1), <<"}">>)

\* ---- visit_While
\* _extract_while_viz_info: every value it can return.  var_names is a set
\* of str, iterated in an order that is not fixed, so the fallback on plain
\* variable comparisons has one outcome per order.
_extract_while_viz_info(tr, test_node) ==
    LET ls == tr.loop_stack
        Grouped(ch) == Len(ch.idxs) = 1
        chains == SelectSeq(SubscriptsIn(test_node), Grouped)
        TextsOf(ch) == <<js_expr(ls, ch.idxs[1]).js>>
        bases == BasesOf(chains)
        result == [k \in 1..Len(bases) |->
                      [base |-> bases[k],
                       indices |-> Take(Unique(IndicesOf(chains, bases[k], TextsOf), {}), 2)]]
        helpers == UNION {js_expr(ls, chains[k].idxs[1]).h : k \in 1..Len(chains)}
        nameNodes == SelectSeq(Walk(test_node), IsNameNode)
        var_names == {nameNodes[k].id : k \in 1..Len(nameNodes)}
        candidates == var_names \cap tr.traceable_1d
    IN  IF result # <<>> \/ Cardinality(var_names) < 2 \/ candidates = {}
        THEN {R(result, helpers)}
        ELSE UNION {
                 LET others == (var_names \ {vname}) \ tr.traceable_1d
                 IN  IF others = {} THEN {R(<<>>, helpers)}
                     ELSE {R(<<[base |-> vname,
                                indices |-> [k \in 1..Len(Take(o, 2)) |-> <<o[k]>>]]>>,
                             helpers) : o \in Orderings(others)}
                 : vname \in candidates}

_find_mid_variable(body) ==
    LET IsMid(stmt) == stmt.t = "Assign" /\ Len(stmt.targets) = 1
                       /\ stmt.targets[1].t = "Name"
                       /\ stmt.targets[1].id \in {"mid", "middle", "m"}
        found == SelectSeq(body, IsMid)
    IN  IF found = <<>> THEN NoName ELSE found[1].targets[1].id

\* the select (or deselect) lines of visit_While for its viz_info
RECURSIVE WhileTracerLines(_, _, _)
WhileTracerLines(tr, viz_info, method) ==
    IF viz_info = <<>> THEN <<>>
    ELSE LET tracer_base == _mapped_tracer_base(tr, Head(viz_info).base)
         IN  (IF tracer_base \in tr.traceable_1d /\ Len(Head(viz_info).indices) <= 2
              THEN IF method = "select"
                   THEN <<TracerCall(tracer_base, method, Head(viz_info).indices), Delay>>
                   ELSE <<TracerCall(tracer_base, method, Head(viz_info).indices)>>
              ELSE <<>>)
             \o WhileTracerLines(tr, Tail(viz_info), method)

\* visit_While down to the visit of node.body, for one outcome of
\* _extract_while_viz_info
While_enter(tr, node, viz) ==
    LET cond == js_expr(tr.loop_stack, node.test)
        tr1 == Indent(emit(Need(tr, cond.h \cup viz.h),
                           <<"while ", "(">> \o cond.js \o <<")", " {">>), 1)
    IN  EmitAll(tr1, WhileTracerLines(tr1, viz.js, "select"))
\* visit_While after the visit of a statement that assigns mid_var:
\* `for base in self.traceable_1d: ...; break` on the base the set yields first
While_mid_AllBases(tr, mid_var, base) ==
    EmitAll(tr, Flatten([k \in 1..Cardinality(tr.traceable_1d) |->
                << TracerCall(AnyOrder(tr.traceable_1d)[k], "select", <<<<mid_var>>>>),
                   Delay,
                   TracerCall(AnyOrder(tr.traceable_1d)[k], "deselect", <<<<mid_var>>>>) >>]))
While_mid(tr, mid_var, base) ==
    EmitAll(tr, << TracerCall(base, "select", <<<<mid_var>>>>),
                   Delay,
                   TracerCall(base, "deselect", <<<<mid_var>>>>) >>)
\* visit_While after the visit of node.body
While_exit(tr, viz_info) ==
    emit(Indent(EmitAll(tr, WhileTracerLines(tr, viz_info, "deselect")), -1), <<"}">>)

\* ---- visit_FunctionDef
FunctionDef_enter(tr, node) ==
    LET args == CommaJoin([k \in 1..Len(node.args) |-> <<node.args[k]>>])
        tr1 == Indent(emit(tr, <<"function ", node.name, "(">> \o args \o <<")", " {">>), 1)
        tr2 == [tr1 EXCEPT !.func_stack = Append(@, node.name),
                           !.scope_stack = Append(@, Range(node.args))]
    IN  EmitAll(tr2, << Println(<<"→ ", node.name, "(">> \o args \o <<")">>), Delay >>)
\* an exit that leaves the scope of the function on the stack
FunctionDef_exit_KeepScope(tr) ==
    emit(Indent([tr EXCEPT !.func_stack = Pop(@)], -1), <<"}">>)
FunctionDef_exit(tr) ==
    emit(Indent([tr EXCEPT !.scope_stack = Pop(@), !.func_stack = Pop(@)], -1), <<"}">>)

\* ---- visit_Module
\* _get_helper_code, for the helpers js_expr can ask for here
\* the lines of each helper, one text per line
HelperCode ==
    [IDX |->
        << <<"function ", "__idx", "(arr, i) { return i < 0 ? arr.length + i : i; }">> >>,
     ZIP |->
        << <<"function ", "__zip", "(...arrs) {">>,
           <<"  const m = Math.min(...arrs.map(a => a.length));">>,
           <<"  return Array.from({length: m}, (_, i) => arrs.map(a => a[i]));">>,
           <<"}">> >>,
     DEFAULTDICT |->
        << <<"function ", "__defaultdict", "(factory) {">>,
           <<"  return new Proxy({}, {">>,
           <<"    get(t, k) { if (!(k in t)) t[k] = factory(); return t[k]; },">>,
           <<"    set(t, k, v) { t[k] = v; return true; }">>,
           <<"  });">>,
           <<"}">> >>,
     COUNTER |->
        << <<"function ", "__counter", "(seq) {">>,
           <<"  const c = {};">>,
           <<"  for (const x of seq) { c[x] = (c[x] || 0) + 1; }">>,
           <<"  return c;">>,
           <<"}">> >>,
     HEAP |->
        << <<"function ", "__heappush", "(h, x) {">>,
           <<"  h.push(x);">>,
           <<"  let i = h.length - 1;">>,
           <<"  while (i > 0) {">>,
           <<"    const p = (i - 1) >> 1;">>,
           <<"    if (h[p] <= h[i]) break;">>,
           <<"    [h[p], h[i]] = [h[i], h[p]];">>,
           <<"    i = p;">>,
           <<"  }">>,
           <<"}">>,
           <<"function ", "__heappop", "(h) {">>,
           <<"  if (h.length === 0) return undefined;">>,
           <<"  const top = h[0];">>,
           <<"  const x = h.pop();">>,
           <<"  if (h.length) {">>,
           <<"    h[0] = x;">>,
           <<"    let i = 0, n = h.length;">>,
           <<"    while (true) {">>,
           <<"      let l = 2 * i + 1, r = l + 1, s = i;">>,
           <<"      if (l < n && h[l] < h[s]) s = l;">>,
           <<"      if (r < n && h[r] < h[s]) s = r;">>,
           <<"      if (s === i) break;">>,
           <<"      [h[i], h[s]] = [h[s], h[i]];">>,
           <<"      i = s;">>,
           <<"    }">>,
           <<"  }">>,
           <<"  return top;">>,
           <<"}">> >>,
     SUM |->
        << <<"const ", "__sum", " = arr => arr.reduce((a, b) => a + b, 0);">> >>,
     SORTED |->
        << <<"const ", "__sorted", " = arr => [...arr].sort((a, b) => a - b);">> >>,
     REVERSED |->
        << <<"const ", "__reversed", " = arr => [...arr].reverse();">> >>]
\* code.append / code.extend under `if "<flag>" in self.helpers_needed`
HelperLines(tr, flag) ==
    IF flag \in tr.helpers_needed
    THEN [k \in 1..Len(HelperCode[flag]) |-> Line(0, HelperCode[flag][k])]
    ELSE <<>>
_get_helper_code_NoReversed(tr) ==
    HelperLines(tr, "IDX") \o HelperLines(tr, "ZIP")
    \o HelperLines(tr, "DEFAULTDICT")
    \o HelperLines(tr, "COUNTER") \o HelperLines(tr, "HEAP")
    \o HelperLines(tr, "SUM") \o HelperLines(tr, "SORTED")
_get_helper_code(tr) ==
    HelperLines(tr, "IDX") \o HelperLines(tr, "ZIP")
    \o HelperLines(tr, "DEFAULTDICT")
    \o HelperLines(tr, "COUNTER") \o HelperLines(tr, "HEAP")
    \o HelperLines(tr, "SUM") \o HelperLines(tr, "SORTED")
    \o HelperLines(tr, "REVERSED")
\* the text visit_Module returns, one element per line
Module_return(tr) ==
    IF _get_helper_code(tr) # <<>>
    THEN _get_helper_code(tr) \o <<Line(0, <<>>)>> \o tr.lines
    ELSE tr.lines

\* ---- the statements still to visit and the handler tails still to run
StmtItem(node) == [w |-> "stmt", node |-> node]
Items(body) == [k \in 1..Len(body) |-> StmtItem(body[k])]
\* the loop of visit_While over node.body
WhileItems(body, mid_var) ==
    Flatten([k \in 1..Len(body) |->
        IF mid_var # NoName /\ body[k].t = "Assign" /\ Len(body[k].targets) = 1
           /\ body[k].targets[1].t = "Name" /\ body[k].targets[1].id = mid_var
        THEN <<StmtItem(body[k]), [w |-> "mid", mid_var |-> mid_var]>>
        ELSE <<StmtItem(body[k])>>])

\* ---- the programs translated
\* index expressions: a canonical name, another name, literals and sums
IdxLits == {Constant(n) : n \in 0..MaxLit} \cup {USub(Constant(n)) : n \in 1..MaxLit}
Idx1 == {Name("i"), Name("x")} \cup IdxLits
        \cup {BinOp(Name("i"), "Add", Constant(1)), BinOp(Name("x"), "Add", Constant(1))}
Idx2 == {Name("i"), Name("x"), Name("y")} \cup IdxLits

At(base, e) == Subscript(Name(base), e)
At2(base, e1, e2) == Subscript(Subscript(Name(base), e1), e2)
Swap(l1, l2) == Assign(<<TupleNode(<<l1, l2>>)>>, TupleNode(<<l2, l1>>))
MidAssign == Assign(<<Name("mid")>>,
                    BinOp(BinOp(Name("left"), "Add", Name("right")), "FloorDiv", Constant(2)))

Reads1  == {Assign(<<Name("v")>>, At("a", e)) : e \in Idx1}
Reads2  == {Assign(<<Name("v")>>, At2("g", e1, e2)) : e1, e2 \in Idx2}
Writes1 == {Assign(<<At("a", e)>>, Constant(0)) : e \in Idx1}
Writes2 == {Assign(<<At2("g", e1, e2)>>, Constant(0)) : e1, e2 \in Idx2}
           \cup {Assign(<<At2("a", Name("i"), Name("x"))>>, Constant(0))}
Swaps   == {Swap(At("a", Name("i")), At("a", BinOp(Name("i"), "Add", Constant(1)))),
            Swap(At("a", Name("x")), At("a", Name("y"))),
            Swap(At("a", Constant(0)), At("a", USub(Constant(1)))),
            Swap(At("a", At("b", Name("i"))), At("a", Name("i"))),
            Swap(At("a", Name("i")), At("b", Name("i"))),
            Swap(At("b", Name("i")), At("b", Name("x"))),
            Swap(At2("a", Name("i"), Name("x")), At2("a", Name("x"), Name("i")))}
Appends == {Expr(Call(Attribute(Name(n), "append"), <<Name("v")>>)) : n \in {"a", "b"}}
           \cup {Expr(Call(Attribute(At("a", Name("i")), "append"), <<Name("v")>>))}
Plain   == {Assign(<<Name("v")>>, Constant(0)), MidAssign,
            Assign(<<Name("m")>>, Constant(0)),
            Assign(<<TupleNode(<<Name("v"), Name("w")>>)>>, TupleNode(<<Name("w"), Name("v")>>)),
            Assign(<<TupleNode(<<Name("v"), Name("w")>>)>>,
                   TupleNode(<<Name("w"), BinOp(Name("v"), "Add", Name("w"))>>)),
            Assign(<<TupleNode(<<Name("v"), Name("w")>>)>>, TupleNode(<<Name("m"), Name("p")>>)),
            Assign(<<TupleNode(<<Name("v"), Name("w")>>)>>, Name("p")),
            Expr(Call(Name("print"), <<Name("v")>>))}
Atoms == Reads1 \cup Reads2 \cup Writes1 \cup Writes2 \cup Swaps \cup Appends \cup Plain

\* one statement of each kind, for the bodies of nested blocks
SmallAtoms ==
    {Assign(<<At("a", Name("i"))>>, Constant(0)),
     Assign(<<At2("g", Name("i"), Name("x"))>>, Constant(0)),
     Swap(At("a", Name("i")), At("a", BinOp(Name("i"), "Add", Constant(1)))),
     Expr(Call(Attribute(Name("a"), "append"), <<Name("v")>>)),
     Assign(<<Name("v")>>, At("b", Name("x")))}

IfTests ==
    {Compare(At("a", Name("i")), "Gt", At("a", BinOp(Name("i"), "Add", Constant(1)))),
     Compare(At("a", Name("i")), "Lt", At("b", Name("i"))),
     Compare(At2("g", Name("i"), Name("x")), "Eq", Constant(0)),
     Compare(At("b", Name("x")), "Eq", At("b", Name("y"))),
     Compare(At("a", Name("mid")), "Lt", Name("v"))}
Ifs == {If(test, <<s>>, orelse) : test \in IfTests, s \in SmallAtoms,
                                  orelse \in {<<>>, <<Assign(<<Name("v")>>, Constant(0))>>}}

RangeCall(args) == Call(Name("range"), args)
RangeArgs == {<<Name("n")>>, <<Constant(1), Call(Name("len"), <<Name("a")>>)>>,
              <<Name("n"), Constant(0), USub(Constant(1))>>}
InnerLoops ==
    {For(Name("x"), RangeCall(<<Name("n")>>), <<s>>) : s \in SmallAtoms}
    \cup {For(Name("x"), Name("a"), <<s>>) : s \in SmallAtoms}
RangeFors ==
    {For(Name(v), RangeCall(<<Name("n")>>), <<s>>) : v \in {"i", "x"}, s \in Atoms \cup InnerLoops}
    \cup {For(Name("y"), RangeCall(args), <<s>>) : args \in RangeArgs, s \in SmallAtoms}
    \cup {For(TupleNode(<<Name("x"), Name("y")>>), RangeCall(<<Name("n")>>), <<s>>) : s \in SmallAtoms}
OfFors ==
    {For(target, Name("cells"), <<s>>) :
        target \in {Name("x"), TupleNode(<<Name("x"), Name("y")>>)},
        s \in Reads1 \cup Writes1 \cup Writes2 \cup SmallAtoms}

WhileTests ==
    {Compare(Name("left"), "LtE", Name("right")),
     Compare(Name("i"), "Lt", Call(Name("len"), <<Name("a")>>)),
     Compare(Name("a"), "NotEq", Name("b")),
     Compare(At("a", Name("i")), "Lt", At("a", Name("x"))),
     Compare(At("a", Name("i")), "Lt", At("b", Name("i")))}
WhileBodies ==
    {<<MidAssign>>, <<Assign(<<Name("m")>>, Constant(0)), MidAssign>>,
     <<If(Compare(At("a", Name("mid")), "Lt", Name("v")), <<MidAssign>>, <<>>)>>}
    \cup {<<MidAssign, s>> : s \in SmallAtoms}
    \cup {<<s, MidAssign>> : s \in SmallAtoms}
    \cup {<<s>> : s \in SmallAtoms}
Whiles == {While(test, body) : test \in WhileTests, body \in WhileBodies}

\* statements of a class or shape the translator has no branch for, next
\* to their supported neighbours
Unsupported ==
    {Assign(<<Name("v"), Name("w")>>, Constant(0)),
     Assign(<<Subscript(At2("g", Name("i"), Name("x")), Constant(0))>>, Constant(0)),
     Assign(<<Attribute(Name("p"), "f")>>, Constant(0)),
     Assign(<<Name("v")>>, Node("Lambda")),
     Assign(<<Name("v")>>, Subscript(At2("g", Name("i"), Name("x")), Constant(0))),
     Assign(<<Name("v")>>, At2("g", Node("IfExp"), Name("x"))),
     Expr(Node("Lambda")),
     AugAssign(Name("v"), "Add", Constant(1)),
     AugAssign(At("a", Name("i")), "Sub", Name("v")),
     AugAssign(Name("v"), "FloorDiv", Constant(1)),
     Node("Delete"), Node("Try"), Node("With")}

\* comprehensions and slices, the ones translated and the ones replaced by a
\* placeholder, alone and in a loop body before another statement
Generator(var, it) == comprehension(Name(var), Name(it), <<>>)
DegradedValues ==
    {ListComp(Name("p"), <<Generator("p", "a"), Generator("q", "b")>>),
     ListComp(At("a", Name("q")), <<Generator("p", "b"), Generator("q", "p")>>),
     At("a", Slice(NoNode, NoNode, Constant(2))),
     At("a", Slice(Constant(0), Name("n"), USub(Constant(2)))),
     At("a", Slice(At("b", Name("x")), NoNode, Name("v")))}
TranslatedValues ==
    {ListComp(Name("p"), <<Generator("p", "a")>>),
     ListComp(Name("p"), <<comprehension(Name("p"), Name("a"),
                                         <<Compare(Name("p"), "Gt", Constant(0)), Name("c")>>)>>),
     At("a", Slice(NoNode, NoNode, NoNode)),
     At("a", Slice(Constant(1), Name("n"), Constant(1))),
     At("a", Slice(NoNode, NoNode, USub(Constant(1))))}
Degraded ==
    {Assign(<<Name("v")>>, e) : e \in DegradedValues \cup TranslatedValues}
    \cup {For(Name(x), RangeCall(<<Name("n")>>),
              <<Assign(<<Name("v")>>, e), Assign(<<Name("w")>>, Name("v"))>>) :
            x \in {"i", "x"}, e \in DegradedValues}
    \cup {If(Compare(Name("v"), "Lt", Constant(0)),
             <<Assign(<<Name("v")>>, e)>>, <<Assign(<<Name("w")>>, Constant(0))>>) :
            e \in DegradedValues}

\* one statement for each way of asking for a helper
HelperUses ==
    {Assign(<<Name("v")>>, Call(Name("reversed"), <<Name("a")>>)),
     Assign(<<Name("v")>>, Call(Name("zip"), <<Name("a"), Name("b")>>)),
     Assign(<<Name("v")>>, Call(Name("defaultdict"), <<Name("list")>>)),
     Assign(<<Name("v")>>, Call(Name("Counter"), <<Name("a")>>)),
     Expr(Call(Name("heappush"), <<Name("h"), Name("v")>>)),
     Assign(<<Name("v")>>, Call(Name("heappop"), <<Name("h")>>)),
     Expr(Call(Attribute(Name("heapq"), "heappush"), <<Name("h"), Name("v")>>)),
     Expr(Call(Attribute(Name("heapq"), "heapify"), <<Name("h")>>)),
     Assign(<<Name("v")>>, Call(Name("sum"), <<Name("a")>>)),
     Assign(<<Name("v")>>, Call(Name("sorted"), <<Name("a")>>)),
     Assign(<<Name("v")>>, At("a", Name("p"))),
     Assign(<<Name("v")>>, At("a", Slice(NoNode, NoNode, USub(Constant(1)))))}

\* if statements whose test holds the compared elements under a boolean
\* operator or an argument list
CompoundTests ==
    {BoolOp("And", <<Compare(At("a", Name("i")), "Gt", At("a", Name("x"))), Name("c")>>),
     BoolOp("Or", <<Compare(At("a", Name("i")), "Gt", Constant(0)),
                    Compare(At("a", Name("x")), "Gt", Constant(0))>>),
     Compare(Call(Name("p"), <<At("a", Name("i"))>>), "Gt", At("a", Name("x"))),
     Compare(At("a", Name("i")), "Gt", At("a", Name("i")))}
CompoundIfs ==
    {If(test, <<Assign(<<Name("v")>>, Constant(0))>>, orelse) :
        test \in CompoundTests, orelse \in {<<>>, <<Assign(<<Name("w")>>, Constant(0))>>}}

\* range loops whose body subscripts two bases, one of them under a call
TwoBaseValues ==
    {BinOp(Call(Name("p"), <<At("a", Name("i"))>>), "Add", At("b", Name("i"))),
     BinOp(At("a", Name("i")), "Add", Call(Name("p"), <<At("b", Name("i"))>>)),
     BinOp(At("b", Name("i")), "Add", At("a", Name("i"))),
     Call(Name("p"), <<Call(Name("p"), <<At("b", Name("i"))>>), At("a", Name("i"))>>)}
TwoBaseLoops ==
    {For(Name("i"), RangeCall(<<Name("n")>>), <<Assign(<<Name("v")>>, e)>>) :
        e \in TwoBaseValues}

\* loops and ifs that are left from the middle: by break, by continue, by
\* return with and without a value
Break == Node("Break")
Continue == Node("Continue")
Return(value) == [t |-> "Return", value |-> value]
ExitNodes == {Break, Continue, Return(NoNode), Return(At("a", Name("i")))}
ExitIf(x) == If(Compare(Name("v"), "Gt", Constant(0)), <<x>>, <<>>)
Exits ==
    {For(Name("i"), RangeCall(<<Name("n")>>),
         <<Assign(<<Name("v")>>, At("a", Name("i"))), ExitIf(x)>>) : x \in ExitNodes}
    \cup {While(Compare(At("a", Name("i")), "Lt", At("a", Name("x"))),
                <<ExitIf(x), Assign(<<Name("v")>>, Constant(0))>>) : x \in ExitNodes}
    \cup {For(Name("i"), RangeCall(<<Name("n")>>),
              <<If(Compare(At("a", Name("i")), "Gt",
                           At("a", BinOp(Name("i"), "Add", Constant(1)))),
                   <<x>>, <<>>)>>) : x \in ExitNodes}
    \cup {If(Compare(At("a", Name("i")), "Gt", At("a", BinOp(Name("i"), "Add", Constant(1)))),
             <<Return(NoNode)>>, <<Assign(<<Name("v")>>, Constant(0))>>)}

Statements ==
    Atoms \cup Ifs \cup RangeFors \cup OfFors \cup Whiles \cup Unsupported \cup Degraded
    \cup HelperUses \cup CompoundIfs \cup TwoBaseLoops \cup Exits

\* a block that assigns a name for the first time, and the statements that
\* assign that name or the loop variable after the block
Blocks ==
    {If(Compare(Name("v"), "Lt", Constant(0)), <<Assign(<<Name("m")>>, Constant(0))>>, <<>>),
     For(Name("x"), RangeCall(<<Name("n")>>), <<Assign(<<Name("m")>>, Constant(0))>>),
     For(Name("x"), Name("cells"), <<Assign(<<Name("m")>>, Constant(0))>>),
     While(Compare(Name("left"), "LtE", Name("right")), <<Assign(<<Name("m")>>, Constant(0))>>)}
AfterBlock ==
    {Assign(<<Name("m")>>, Constant(0)), Assign(<<Name("x")>>, Constant(0)),
     Assign(<<Name("v")>>, At("a", Name("x"))),
     For(Name("x"), RangeCall(<<Name("n")>>), <<Assign(<<Name("m")>>, Name("x"))>>)}

\* a module: one function holding the statement, alone or called on the
\* caller's names; or the statement at top level
CallF == Expr(Call(Name("f"), <<Name("arr"), Name("g")>>))
\* further call sites of f: another name, an argument that is no name, an
\* argument short
OtherCalls ==
    {Expr(Call(Name("f"), <<Name("b"), Name("g")>>)),
     Expr(Call(Name("f"), <<At("arr", Constant(0)), Name("g")>>)),
     Expr(Call(Name("f"), <<Name("arr")>>))}
\* three functions that call one another in a chain, f -> g -> h, and the
\* top-level calls that start the chain at one or two places
ChainDefs ==
    <<FunctionDef("f", <<"a">>, <<Expr(Call(Name("g"), <<Name("a")>>))>>),
      FunctionDef("g", <<"b">>, <<Expr(Call(Name("h"), <<Name("b")>>))>>),
      FunctionDef("h", <<"c">>, <<Assign(<<At("c", Name("i"))>>, Constant(0))>>)>>
ChainCalls ==
    {Expr(Call(Name("f"), <<Name("arr")>>)), Expr(Call(Name("g"), <<Name("b")>>)),
     Expr(Call(Name("h"), <<Name("arr")>>))}
CallChains ==
    {ChainDefs \o <<c>> : c \in ChainCalls}
    \cup {ChainDefs \o <<c, d>> : c, d \in ChainCalls}
\* a function defined in the body of a function, under a loop or alone
NestedDefs ==
    {<<FunctionDef("f", <<"a", "g">>,
                   <<FunctionDef("h", <<"c">>, <<s>>), t>>)>> : s, t \in SmallAtoms}
    \cup {<<FunctionDef("f", <<"a", "g">>,
                        <<For(Name("i"), RangeCall(<<Name("n")>>),
                              <<FunctionDef("h", <<"c">>, <<s>>)>>)>>)>> : s \in SmallAtoms}
\* a mapping made by a call and then written at a key: with a name that
\* spells "defaultdict" and with one that does not
DictNames == {"m", "defaultdict_map"}
DictMakers == {"defaultdict", "dict", "Counter"}
DictWrites ==
    {<<Assign(<<Name(d)>>, Call(Name(maker), <<>>)),
       Assign(<<At(d, Name("k"))>>, Name("v"))>> : d \in DictNames, maker \in DictMakers}

\* EnhancedAnalyzer._handle_call_assign, the var_sources it records: the tag
\* of the called collection or builtin, for each name assigned from a call
SourceTag(func_name) ==
    CASE func_name = "deque"       -> {"deque_init"}
      [] func_name = "defaultdict" -> {"defaultdict_init"}
      [] func_name = "Counter"     -> {"counter_init"}
      [] func_name = "set"         -> {"set_init"}
      [] func_name = "dict"        -> {"dict_init"}
      [] func_name = "list"        -> {"list_init"}
      [] func_name = "sorted"      -> {"sorted_result"}
      [] func_name = "reversed"    -> {"reversed_result"}
      [] OTHER                     -> {}
IsCallAssign(node) ==
    /\ node.t = "Assign" /\ Len(node.targets) = 1 /\ node.targets[1].t = "Name"
    /\ node.value.t = "Call" /\ node.value.func.t = "Name"
\* summary['var_sources'] of a module: name -> the tags of its call assignments
var_sources(module) ==
    LET nodes == Flatten([k \in 1..Len(module) |-> DocWalk(module[k])])
        assigns == {nodes[k] : k \in {j \in 1..Len(nodes) : IsCallAssign(nodes[j])}}
        TagsOf(name) ==
            UNION {SourceTag(n.value.func.id) : n \in {x \in assigns : x.targets[1].id = name}}
        named == {n.targets[1].id : n \in assigns}
    IN  [name \in {x \in named : TagsOf(x) # {}} |-> TagsOf(name)]

Modules ==
    {<<FunctionDef("f", <<"a", "g">>, <<s>>)>> : s \in Statements}
    \cup {<<FunctionDef("f", <<"a", "g">>, <<s>>), CallF>> : s \in Statements}
    \cup {<<FunctionDef("f", <<"a", "g">>, <<s>>), c>> : s \in SmallAtoms, c \in OtherCalls}
    \cup {<<FunctionDef("f", <<"a", "g">>, <<s>>), c, d>> :
              s \in SmallAtoms, c, d \in OtherCalls \cup {CallF}}
    \cup {<<s>> : s \in SmallAtoms}
    \cup {<<s1, s2>> : s1, s2 \in HelperUses}
    \cup {<<b, s>> : b \in Blocks, s \in AfterBlock}
    \cup {<<FunctionDef("f", <<"a", "g">>, <<b, s>>)>> : b \in Blocks, s \in AfterBlock}
    \cup DictWrites
    \cup NestedDefs
    \cup CallChains

\* summary['vars_1d'] and summary['vars_2d'] as the caller passes them
Vars1dSets == SUBSET {"a", "arr", "b"}
Vars2dSets == SUBSET {"g"}

NoLast == [item |-> [w |-> "init"], from |-> 0, before |-> TranslatorNew({}, {}, EmptyMap)]

\* ---- two analyses of one unit
\* The names the compared expressions use.
CmpNames == {"a", "b", "i"}
\* list(set_of_str) iterates in an order fixed by the string hashes, which
\* CPython draws per process (PYTHONHASHSEED): a seed is the order it gives
\* to the names, and every order is the order of some seed.
HashSeeds == Orderings(CmpNames)
SetOrder(seed, S) == LET In(n) == n \in S IN SelectSeq(seed, In)
\* EnhancedAnalyzer.visit_Compare: the names and the subscript bases met by
\* ast.walk, appended as one comparison point when there are any
vars_involved(node) ==
    LET names == {Walk(node)[k].id :
                    k \in {j \in 1..Len(Walk(node)) : Walk(node)[j].t = "Name"}}
        bases == {_subscript_chain(Walk(node)[k]).base :
                    k \in {j \in 1..Len(Walk(node)) : Walk(node)[j].t = "Subscript"}}
    IN  names \cup (bases \ {NoName})
visit_Compare(run, node, lineno) ==
    IF vars_involved(node) # {}
    THEN [run EXCEPT !.comparison_points =
              Append(@, [line |-> lineno, vars |-> SetOrder(run.seed, vars_involved(node))])]
    ELSE run
\* a fresh EnhancedAnalyzer in a process of the given hash seed
RunNew(seed) == [seed |-> seed, pos |-> 1, comparison_points |-> <<>>,
                 done |-> FALSE, summary |-> [comparison_points |-> <<>>]]
NoRuns == <<>>
\* no subscript walked, no heap call made
NoWalk == [node |-> Chain(NoName, 0), update_points |-> <<>>,
           chain |-> [base |-> NoName, idxs |-> <<>>], did |-> {}]
NoHeap == [h |-> <<>>, ret |-> <<>>, calls |-> 0, op |-> "", before |-> <<>>]
NoExec == [on |-> FALSE, pc |-> 0, calls |-> <<>>, open |-> <<>>, iters |-> 0]
Comparisons ==
    {Compare(At("a", Name("i")), "Gt", At("a", BinOp(Name("i"), "Add", Constant(1)))),
     Compare(At("a", Name("i")), "Lt", At("b", Name("i"))),
     Compare(Name("a"), "NotEq", Name("b")),
     Compare(Name("i"), "Lt", Constant(1)),
     Compare(Constant(0), "Lt", Constant(1))}
Units == {<<c>> : c \in Comparisons} \cup {<<c, d>> : c, d \in Comparisons}

\* ---- actions: one visitor call each
Step == pc = "walk" /\ steps < MaxSteps /\ steps' = steps + 1
        /\ UNCHANGED <<pc, summary, translator, todo, phase, js, last, unit, runs, walk, jsheap, exec>>

VisitAssign ==
    \E name \in NamesA, value \in AssignValues :
        /\ Step
        /\ an' = AssignName(an, name, value)
        /\ obs' = IF value.t = "Call" THEN ObsCall(obs, value.call) ELSE obs

VisitSubscript ==
    \E chain \in Chains :
        /\ Step
        /\ an' = SubscriptVisit(an, chain)
        /\ obs' = ObsChain(obs, chain)

\* visit_Compare on `base[j] > base[j + 1]`: the comparison point, then the
\* two subscripts below it.
VisitCompare ==
    \E base \in NamesA :
        /\ Step
        /\ an' = SubscriptVisit(SubscriptVisit(an, Chain(base, 1)), Chain(base, 1))
        /\ obs' = [ObsChain(obs, Chain(base, 1)) EXCEPT !.compare = TRUE]

\* visit_Assign on the swap `base[i], base[j] = base[j], base[i]`: the tuple
\* target binds no name, then the four subscripts below it.
VisitSwap ==
    \E base \in NamesA :
        /\ Step
        /\ an' = SubscriptVisit(SubscriptVisit(an, Chain(base, 1)), Chain(base, 1))
        /\ obs' = [ObsChain(obs, Chain(base, 1)) EXCEPT !.swap = TRUE]

VisitFor ==
    \E iter \in Iters :
        /\ Step
        /\ an' = visit_For(an, iter)
        /\ obs' = IF iter.t = "Subscript" THEN ObsChain(obs, iter.chain)
                  ELSE IF iter.t = "Call"
                  THEN ObsCall(obs, CallNode("Name", iter.func, "", iter.arg0))
                  ELSE obs

VisitAttribute ==
    \E var \in NamesA, method \in Methods :
        /\ Step
        /\ an' = visit_Attribute(an, var, method)
        /\ obs' = obs

VisitCall ==
    \E call \in Calls :
        /\ Step
        /\ an' = visit_Call(an, call)
        /\ obs' = ObsCall(obs, call)

VisitFunctionDef ==
    \E name \in FuncNames :
        /\ Step
        /\ an' = visit_FunctionDef(an, name)
        /\ obs' = [obs EXCEPT !.fnames = @ \cup {name}]

\* summarize(), called once at the end of analyze_code().
Summarize ==
    /\ pc = "walk"
    /\ an' = Finalize(an)
    /\ summary' = SummaryOf(Finalize(an))
    /\ pc' = "done"
    /\ UNCHANGED <<steps, obs, translator, todo, phase, js, last, unit, runs, walk, jsheap, exec>>

InitAnalyzer ==
    /\ an = AnalyzerInit
    /\ pc = "walk"
    /\ steps = 0
    /\ summary = NoSummary
    /\ obs = ObsInit
    /\ translator = TranslatorNew({}, {}, EmptyMap)
    /\ todo = <<>>
    /\ phase = "idle"
    /\ js = <<>>
    /\ last = NoLast
    /\ unit = <<>>
    /\ runs = NoRuns
    /\ walk = NoWalk
    /\ jsheap = NoHeap /\ exec = NoExec

NextAnalyzer ==
    \/ VisitAssign
    \/ VisitSubscript
    \/ VisitCompare
    \/ VisitSwap
    \/ VisitFor
    \/ VisitAttribute
    \/ VisitCall
    \/ VisitFunctionDef
    \/ Summarize

SpecAnalyzer == InitAnalyzer /\ [][NextAnalyzer]_vars

\* ============================ translate_to_js =============================
\* One action per visit_* handler; a handler that visits a body is cut at
\* the visit: what it does before, and what it does after (its tail, kept
\* in todo behind the statements of the body).

AtStmt(class) ==
    phase = "visit" /\ todo # <<>> /\ Head(todo).w = "stmt" /\ Head(todo).node.t = class
AtTail(w) == phase = "visit" /\ todo # <<>> /\ Head(todo).w = w
Advance(tr2, items) ==
    /\ translator' = tr2
    /\ todo' = items \o Tail(todo)
    /\ last' = [item |-> Head(todo), from |-> Len(translator.lines),
                before |-> translator]
    /\ UNCHANGED <<phase, js, an, pc, steps, summary, obs, unit, runs, walk, jsheap, exec>>

TrAssign == AtStmt("Assign") /\ Advance(visit_Assign(translator, Head(todo).node), <<>>)

TrExpr == AtStmt("Expr") /\ Advance(visit_Expr(translator, Head(todo).node), <<>>)

TrAugAssign ==
    AtStmt("AugAssign") /\ Advance(visit_AugAssign(translator, Head(todo).node), <<>>)

TrBreak == AtStmt("Break") /\ Advance(visit_Break(translator), <<>>)
TrContinue == AtStmt("Continue") /\ Advance(visit_Continue(translator), <<>>)
TrReturn ==
    AtStmt("Return")
        /\ Advance(visit_Return(translator.loop_stack, translator, Head(todo).node), <<>>)

TrGeneric ==
    /\ phase = "visit" /\ todo # <<>> /\ Head(todo).w = "stmt"
    /\ Head(todo).node.t \notin Visitors
    /\ Advance(generic_visit(translator, Head(todo).node), <<>>)

TrIf ==
    /\ AtStmt("If")
    /\ LET node == Head(todo).node
       IN  Advance(If_enter(translator, node),
                   Items(node.body)
                   \o (IF node.orelse # <<>>
                       THEN <<[w |-> "else"]>> \o Items(node.orelse) ELSE <<>>)
                   \o <<[w |-> "end_If", node |-> node,
                         select_info |-> _extract_comparison_indices(translator, node.test).js]>>)
TrIfElse == AtTail("else") /\ Advance(If_else(translator), <<>>)
TrIfExit == AtTail("end_If") /\ Advance(If_exit(translator, Head(todo).select_info), <<>>)

TrForOf ==
    /\ AtStmt("For") /\ ~IsRange(Head(todo).node.iter)
    /\ Advance(ForOf_enter(translator, Head(todo).node),
               Items(Head(todo).node.body) \o <<[w |-> "end_For", node |-> Head(todo).node]>>)
TrForOfExit == AtTail("end_For") /\ Advance(ForOf_exit(translator), <<>>)

TrRangeLoop ==
    /\ AtStmt("For") /\ IsRange(Head(todo).node.iter)
    /\ LET node == Head(todo).node
       IN  Advance(_handle_range_loop(translator, node),
                   Items(node.body)
                   \o <<[w |-> "end_Range", node |-> node,
                         loop_var |-> js_expr(translator.loop_stack, node.target).js]>>)
TrRangeLoopExit ==
    AtTail("end_Range") /\ Advance(Range_exit(translator, Head(todo).node, Head(todo).loop_var), <<>>)

TrWhile ==
    /\ AtStmt("While")
    /\ LET node == Head(todo).node
       IN  \E viz \in _extract_while_viz_info(translator, node.test) :
               Advance(While_enter(translator, node, viz),
                       WhileItems(node.body, _find_mid_variable(node.body))
                       \o <<[w |-> "end_While", viz_info |-> viz.js]>>)
TrWhileMid ==
    /\ AtTail("mid")
    /\ \/ translator.traceable_1d = {} /\ Advance(translator, <<>>)
       \/ \E base \in translator.traceable_1d :
              Advance(While_mid(translator, Head(todo).mid_var, base), <<>>)
TrWhileExit == AtTail("end_While") /\ Advance(While_exit(translator, Head(todo).viz_info), <<>>)

TrFunctionDef ==
    /\ AtStmt("FunctionDef")
    /\ Advance(FunctionDef_enter(translator, Head(todo).node),
               Items(Head(todo).node.body)
                   \o <<[w |-> "end_FunctionDef", node |-> Head(todo).node]>>)
TrFunctionDefExit == AtTail("end_FunctionDef") /\ Advance(FunctionDef_exit(translator), <<>>)

\* the end of visit_Module and the return of translate_to_js
TrModuleReturn ==
    /\ phase = "visit" /\ todo = <<>>
    /\ js' = Module_return(translator)
    /\ phase' = "done"
    /\ UNCHANGED <<translator, todo, last, an, pc, steps, summary, obs, unit, runs, walk, jsheap, exec>>

\* translate_to_js(code, summary) up to translator.visit(tree)
InitTranslator ==
    \E module \in Modules, v1 \in Vars1dSets, v2 \in Vars2dSets :
        /\ summary = [NoSummary EXCEPT !.vars_1d = AnyOrder(v1), !.vars_2d = AnyOrder(v2),
                                       !.var_sources = var_sources(module)]
        /\ translator = TranslatorNew(v1, v2, _collect_param_bindings(module))
        /\ todo = Items(module)
        /\ phase = "visit"
        /\ js = <<>>
        /\ last = NoLast
        /\ an = AnalyzerInit /\ pc = "done" /\ steps = 0 /\ obs = ObsInit
        /\ unit = <<>> /\ runs = NoRuns /\ walk = NoWalk /\ jsheap = NoHeap /\ exec = NoExec

NextTranslator ==
    \/ TrAssign
    \/ TrExpr
    \/ TrAugAssign
    \/ TrBreak
    \/ TrContinue
    \/ TrReturn
    \/ TrGeneric
    \/ TrIf
    \/ TrIfElse
    \/ TrIfExit
    \/ TrForOf
    \/ TrForOfExit
    \/ TrRangeLoop
    \/ TrRangeLoopExit
    \/ TrWhile
    \/ TrWhileMid
    \/ TrWhileExit
    \/ TrFunctionDef
    \/ TrFunctionDefExit
    \/ TrModuleReturn

SpecTranslator == InitTranslator /\ [][NextTranslator]_vars

\* ===================== analyze_code, twice on one unit =====================
\* Two fresh analyzers traverse the same unit, in one process (one hash
\* seed) or in two processes (a seed each).

AnalyzeCompare ==
    \E r \in DOMAIN runs :
        /\ ~runs[r].done /\ runs[r].pos <= Len(unit)
        /\ runs' = [runs EXCEPT ![r] =
                      [visit_Compare(runs[r], unit[runs[r].pos], runs[r].pos)
                          EXCEPT !.pos = @ + 1]]
        /\ UNCHANGED <<unit, an, pc, steps, summary, obs, translator, todo, phase, js, last, walk, jsheap, exec>>

\* summarize(): the comparison points as collected
AnalyzeSummarize ==
    \E r \in DOMAIN runs :
        /\ ~runs[r].done /\ runs[r].pos > Len(unit)
        /\ runs' = [runs EXCEPT ![r].done = TRUE,
                                ![r].summary = [comparison_points |-> runs[r].comparison_points]]
        /\ UNCHANGED <<unit, an, pc, steps, summary, obs, translator, todo, phase, js, last, walk, jsheap, exec>>

InitTwice ==
    /\ unit \in Units
    /\ \E s1, s2 \in HashSeeds : runs = <<RunNew(s1), RunNew(s2)>>
    /\ an = AnalyzerInit /\ pc = "done" /\ steps = 0 /\ summary = NoSummary /\ obs = ObsInit
    /\ translator = TranslatorNew({}, {}, EmptyMap)
    /\ todo = <<>> /\ phase = "idle" /\ js = <<>> /\ last = NoLast
    /\ walk = NoWalk /\ jsheap = NoHeap /\ exec = NoExec

NextTwice ==
    \/ AnalyzeCompare
    \/ AnalyzeSummarize

SpecTwice == InitTwice /\ [][NextTwice]_vars


\* ================= the chain walks on one subscript expression =============
\* One subscript expression of any depth up to MaxDeep, over a name or over
\* an expression that is no name, is visited by the analyzer (visit_Subscript),
\* is the target of an assignment (the analyzer's _handle_subscript_assign)
\* and is walked by the translator (_subscript_chain).
DeepChains == {Chain(r, l) : r \in {"m", NoName}, l \in 1..MaxDeep}
\* the tree of a chain: len Subscript nodes over the root
RECURSIVE ChainNode(_)
ChainNode(chain) ==
    IF chain.len = 0
    THEN IF chain.root = NoName THEN Call(Name("p"), <<>>) ELSE Name(chain.root)
    ELSE Subscript(ChainNode(Chain(chain.root, chain.len - 1)), Constant(0))
\* EnhancedAnalyzer._handle_subscript_assign
Analyzer_handle_subscript_assign(points, target) ==
    LET info == _get_subscript_info(target)
    IN  IF info[1] # NoName THEN Append(points, [var |-> info[1], depth |-> info[2]])
        ELSE points

WalkVisit ==
    /\ walk.node.len > 0 /\ "visit" \notin walk.did
    /\ an' = SubscriptVisit(an, walk.node)
    /\ walk' = [walk EXCEPT !.did = @ \cup {"visit"}]
    /\ UNCHANGED <<pc, steps, summary, obs, translator, todo, phase, js, last, unit, runs, jsheap, exec>>
WalkAssign ==
    /\ walk.node.len > 0 /\ "assign" \notin walk.did
    /\ walk' = [walk EXCEPT
                  !.update_points = Analyzer_handle_subscript_assign(@, walk.node),
                  !.did = @ \cup {"assign"}]
    /\ UNCHANGED <<an, pc, steps, summary, obs, translator, todo, phase, js, last, unit, runs, jsheap, exec>>
WalkChain ==
    /\ walk.node.len > 0 /\ "chain" \notin walk.did
    /\ walk' = [walk EXCEPT !.chain = _subscript_chain(ChainNode(walk.node)),
                            !.did = @ \cup {"chain"}]
    /\ UNCHANGED <<an, pc, steps, summary, obs, translator, todo, phase, js, last, unit, runs, jsheap, exec>>

InitSubscript ==
    /\ \E node \in DeepChains : walk = [NoWalk EXCEPT !.node = node]
    /\ an = AnalyzerInit /\ pc = "done" /\ steps = 0 /\ summary = NoSummary /\ obs = ObsInit
    /\ translator = TranslatorNew({}, {}, EmptyMap)
    /\ todo = <<>> /\ phase = "idle" /\ js = <<>> /\ last = NoLast
    /\ unit = <<>> /\ runs = NoRuns /\ jsheap = NoHeap /\ exec = NoExec

NextSubscript ==
    \/ WalkVisit
    \/ WalkAssign
    \/ WalkChain

SpecSubscript == InitSubscript /\ [][NextSubscript]_vars


\* ====================== __heappush and __heappop at run time ================
\* The HEAP helper of _get_helper_code, run on an array of numbers.  A
\* JavaScript array h is the sequence whose element k + 1 is h[k].
JsAt(h, k) == h[k + 1]
JsSwap(h, i, k) == [h EXCEPT ![i + 1] = h[k + 1], ![k + 1] = h[i + 1]]
\* n >> 1 for a non-negative 32-bit n
Shr1(n) == n \div 2
\* the while loop of __heappush
RECURSIVE SiftUp(_, _)
SiftUp(h, i) ==
    IF i > 0
    THEN LET p == Shr1(i - 1)
         IN  IF JsAt(h, p) <= JsAt(h, i) THEN h ELSE SiftUp(JsSwap(h, p, i), p)
    ELSE h
__heappush(h, x) == SiftUp(Append(h, x), Len(h))
\* the while loop of __heappop
RECURSIVE SiftDown(_, _)
SiftDown(h, i) ==
    LET n == Len(h)
        l == 2 * i + 1
        r == l + 1
        s1 == IF l < n /\ JsAt(h, l) < JsAt(h, i) THEN l ELSE i
        s == IF r < n /\ JsAt(h, r) < JsAt(h, s1) THEN r ELSE s1
    IN  IF s = i THEN h ELSE SiftDown(JsSwap(h, i, s), s)
\* a __heappop that puts the last element first and does not sift it down
__heappop_NoSift(h) ==
    IF Len(h) = 0 THEN [h |-> h, ret |-> <<>>]
    ELSE LET rest == SubSeq(h, 1, Len(h) - 1)
         IN  IF Len(rest) # 0
             THEN [h |-> [rest EXCEPT ![1] = h[Len(h)]], ret |-> <<h[1]>>]
             ELSE [h |-> rest, ret |-> <<h[1]>>]
\* __heappop: the array it leaves and the value it returns
__heappop(h) ==
    IF Len(h) = 0 THEN [h |-> h, ret |-> <<>>]
    ELSE LET top == h[1]
             x == h[Len(h)]
             rest == SubSeq(h, 1, Len(h) - 1)
         IN  IF Len(rest) # 0
             THEN [h |-> SiftDown([rest EXCEPT ![1] = x], 0), ret |-> <<top>>]
             ELSE [h |-> rest, ret |-> <<top>>]

HeapPush ==
    /\ jsheap.calls < MaxCalls
    /\ \E x \in 0..MaxValue :
           jsheap' = [h |-> __heappush(jsheap.h, x), ret |-> <<>>,
                      calls |-> jsheap.calls + 1, op |-> "push", before |-> jsheap.h]
    /\ UNCHANGED <<an, pc, steps, summary, obs, translator, todo, phase, js, last,
                   unit, runs, walk, exec>>
HeapPop ==
    /\ jsheap.calls < MaxCalls
    /\ jsheap' = [h |-> __heappop(jsheap.h).h, ret |-> __heappop(jsheap.h).ret,
                  calls |-> jsheap.calls + 1, op |-> "pop", before |-> jsheap.h]
    /\ UNCHANGED <<an, pc, steps, summary, obs, translator, todo, phase, js, last,
                   unit, runs, walk, exec>>
InitHeap ==
    /\ an = AnalyzerInit /\ pc = "done" /\ steps = 0 /\ summary = NoSummary /\ obs = ObsInit
    /\ translator = TranslatorNew({}, {}, EmptyMap) /\ todo = <<>> /\ phase = "heap"
    /\ js = <<>> /\ last = NoLast
    /\ unit = <<>> /\ runs = NoRuns /\ walk = NoWalk /\ exec = NoExec
    /\ jsheap = NoHeap
NextHeap ==
    \/ HeapPush
    \/ HeapPop
SpecHeap == InitHeap /\ [][NextHeap]_vars

\* =============================== claims ==================================

\* ---- what the claims read
SetOf(list) == Range(list)
\* the lines the handler that ran last has emitted
NewLines == SubSeq(translator.lines, last.from + 1, Len(translator.lines))
JustVisited(class) == last.item.w = "stmt" /\ last.item.node.t = class
IsTracerCall(line) ==
    /\ Len(line.text) >= 4
    /\ line.text[2] = "Tracer" /\ line.text[3] = "."
    /\ line.text[4] \in {"select", "deselect", "patch", "depatch"}
LineKind(line) ==
    IF IsTracerCall(line) THEN line.text[4]
    ELSE IF line.text = Delay THEN "delay"
    ELSE IF Len(line.text) >= 3 /\ line.text[1] = "logger" THEN "log"
    ELSE "code"
Kinds(lines) == [k \in 1..Len(lines) |-> LineKind(lines[k])]
Texts(lines) == [k \in 1..Len(lines) |-> lines[k].text]
NotLog(line) == LineKind(line) # "log"
HasSub(text, pat) ==
    \E k \in 0..(Len(text) - Len(pat)) : SubSeq(text, k + 1, k + Len(pat)) = pat
StartsWith(text, pat) == Len(text) >= Len(pat) /\ SubSeq(text, 1, Len(pat)) = pat

\* C1 (traceability gating): every <X>Tracer.select / deselect / patch /
\* depatch line emitted, during the translation and in the returned text, has
\* X in summary['vars_1d'] or summary['vars_2d'], also when X comes from a
\* parameter-to-argument binding.
C1_TraceabilityGating ==
    \A line \in Range(translator.lines) \cup Range(js) :
        IsTracerCall(line)
            => line.text[1] \in SetOf(summary.vars_1d) \cup SetOf(summary.vars_2d)

\* a returned text with a tracer call on `arr`, the argument bound to the
\* parameter `a` that the source subscripts
C1_Witness ==
    /\ phase = "done"
    /\ "f" \in DOMAIN translator.param_bindings
    /\ translator.param_bindings["f"]["a"] = "arr"
    /\ \E line \in Range(js) : IsTracerCall(line) /\ line.text[1] = "arr"

\* C3 (swap emission sequence): `a[i], a[j] = a[j], a[i]` with the tracer base
\* of `a` in the 1-D set emits the destructuring statement, one patch per
\* swapped index, one delay and two depatches, in this order, and nothing
\* else but the log line.
IsSwap1d(node) ==
    /\ node.t = "Assign" /\ Len(node.targets) = 1
    /\ node.targets[1].t = "Tuple" /\ Len(node.targets[1].elts) = 2
    /\ \A k \in 1..2 : /\ node.targets[1].elts[k].t = "Subscript"
                       /\ node.targets[1].elts[k].value.t = "Name"
    /\ node.targets[1].elts[1].value.id = node.targets[1].elts[2].value.id
    /\ node.value.t = "Tuple" /\ Len(node.value.elts) = 2
    /\ \A k \in 1..2 : node.value.elts[k].t = "Subscript"
SwapBase(node) == node.targets[1].elts[1].value.id
SwapTraced ==
    /\ JustVisited("Assign") /\ IsSwap1d(last.item.node)
    /\ _mapped_tracer_base(translator, SwapBase(last.item.node)) \in translator.traceable_1d
C3_SwapSequence ==
    SwapTraced =>
        LET node == last.item.node
            tb == _mapped_tracer_base(translator, SwapBase(node))
            calls == SelectSeq(NewLines, NotLog)
            idx(k) == _norm_idx(translator.loop_stack, <<SwapBase(node)>>,
                                node.targets[1].elts[k].slice).js
            elt(k) == js_expr(translator.loop_stack, node.targets[1].elts[k]).js
        IN  /\ Kinds(calls) = <<"code", "patch", "patch", "delay", "depatch", "depatch">>
            /\ Len(NewLines) = Len(calls) + 1
            /\ StartsWith(calls[1].text, <<"[">> \o elt(1) \o <<", ">> \o elt(2) \o <<"]", " = ", "[">>)
            /\ \A k \in {2, 3, 5, 6} : calls[k].text[1] = tb
            /\ \A k \in 1..2 :
                   ~HasBracket(idx(k)) =>
                       /\ calls[1 + k].text = TracerCall(tb, "patch", <<idx(k), elt(k)>>)
                       /\ calls[4 + k].text = TracerCall(tb, "depatch", <<idx(k)>>)

\* a swap of a[i] and a[i + 1] inside `for i in range(n)` has emitted its lines
C3_Witness ==
    /\ SwapTraced
    /\ translator.loop_stack = << <<"i">> >>
    /\ last.item.node.targets[1].elts[2].slice.t = "BinOp"
    /\ Len(NewLines) = 7

\* C4 (2-D write instrumentation): `base[i][j] = v` with the tracer base in
\* the 2-D set emits the assignment, then patch(i, j, v), delay and
\* depatch(i, j); when i and j are loop variables they are emitted as they
\* are, not wrapped in __idx.
IsWrite2d(node) ==
    /\ node.t = "Assign" /\ Len(node.targets) = 1
    /\ node.targets[1].t = "Subscript"
    /\ node.targets[1].value.t = "Subscript"
    /\ node.targets[1].value.value.t = "Name"
\* the names bound by the targets of the enclosing for loops
LoopVars == UNION {Range(translator.loop_stack[k]) : k \in 1..Len(translator.loop_stack)}
            \ {"[", "]", ", "}
C4_Write2dInstrumentation ==
    (/\ JustVisited("Assign") /\ IsWrite2d(last.item.node)
     /\ _mapped_tracer_base(translator, last.item.node.targets[1].value.value.id)
            \in translator.traceable_2d)
    => LET node == last.item.node
           base == node.targets[1].value.value.id
           tb == _mapped_tracer_base(translator, base)
           i == node.targets[1].value.slice
           j == node.targets[1].slice
           v == js_expr(translator.loop_stack, node.value).js
           calls == SelectSeq(NewLines, NotLog)
       IN  /\ Kinds(calls) = <<"code", "patch", "delay", "depatch">>
           /\ calls[2].text[1] = tb /\ calls[4].text[1] = tb
           /\ (i.t = "Name" /\ j.t = "Name" /\ {i.id, j.id} \subseteq LoopVars)
                  => /\ calls[1].text = <<base, "[", i.id, "]", "[", j.id, "]", " = ">>
                                        \o v \o <<";">>
                     /\ calls[2].text = TracerCall(tb, "patch", <<<<i.id>>, <<j.id>>, v>>)
                     /\ calls[4].text = TracerCall(tb, "depatch", <<<<i.id>>, <<j.id>>>>)
                     /\ \A line \in Range(NewLines) : "__idx" \notin Range(line.text)

\* C5 (midpoint highlight) as stated: right after the assignment to the mid
\* variable in a while body comes one select / delay / deselect triple per
\* traceable 1-D base, for every base.
MidTriple(base, mid_var) ==
    << TracerCall(base, "select", <<<<mid_var>>>>), Delay,
       TracerCall(base, "deselect", <<<<mid_var>>>>) >>
AfterMidAssignment ==
    /\ last.item.w = "mid"
    /\ last.from >= 1
    /\ \/ StartsWith(translator.lines[last.from].text, <<"let ", last.item.mid_var, " = ">>)
       \/ StartsWith(translator.lines[last.from].text, <<last.item.mid_var, " = ">>)
IsLiteral(e) == e.t = "Constant" \/ (e.t = "UnaryOp" /\ e.operand.t = "Constant")
LiteralText(base, e) ==
    IF e.t = "Constant" THEN <<Repr(e.value)>>
    ELSE <<"(", base, ".", "length", " - ", Repr(e.operand.value), ")">>
\* the subscript an assignment reads (its value) or writes (its target)
IsNamedChain(e) ==
    /\ e.t = "Subscript"
    /\ _subscript_chain(e).base # NoName
    /\ Len(_subscript_chain(e).idxs) <= 2
LiteralIndexOk(line, e) ==
    LET ch == _subscript_chain(e)
    IN  \A p \in 1..Len(ch.idxs) :
            IsLiteral(ch.idxs[p]) =>
                /\ HasSub(line.text, <<"[">> \o LiteralText(ch.base, ch.idxs[p]) \o <<"]">>)
                /\ ~HasSub(line.text, <<"[", "-">>)
                /\ ~HasSub(line.text, <<"__idx", "(", ch.base, ", ">>
                                      \o js_expr(<<>>, ch.idxs[p]).js)
C6_LiteralIndexPassthrough ==
    (JustVisited("Assign") /\ Len(last.item.node.targets) = 1 /\ NewLines # <<>>)
    => LET node == last.item.node
       IN  /\ IsNamedChain(node.value) => LiteralIndexOk(NewLines[1], node.value)
           /\ IsNamedChain(node.targets[1]) => LiteralIndexOk(NewLines[1], node.targets[1])


\* ---- unsupported constructs
\* the placeholder texts of the translator
Markers == {"/*expr*/", "/*subscript*/", "/*multi_subscript*/", "/*call*/",
            "/*listcomp*/", "/*genexp*/", "/*slice_step*/ ", "/*unary*/",
            "/* unsupported augassign */", "/* pass */"}
HasMarker(line) == \E j \in 1..Len(line.text) : line.text[j] \in Markers
\* a statement of a class without a visit method, or of a shape its handler
\* has no branch for
Unhandled(node) ==
    \/ node.t \notin Visitors
    \/ /\ node.t = "Assign"
       /\ \/ Len(node.targets) # 1
          \/ node.targets[1].t \notin {"Name", "Tuple", "Subscript"}
          \/ /\ node.targets[1].t = "Subscript"
             /\ \/ _subscript_chain(node.targets[1]).base = NoName
                \/ Len(_subscript_chain(node.targets[1]).idxs) > 2
    \/ node.t = "AugAssign" /\ node.op \notin DOMAIN BinOpText
    \/ node.t \in {"Assign", "Expr"} /\ node.value.t \in {"Lambda", "IfExp"}

\* C11 (unsupported constructs leave a marker): the visit of a statement of a
\* class without a handler, or of a shape its handler does not cover, emits
\* at least one line holding a placeholder marker; the statement is not
\* dropped without output.
C11_UnsupportedLeavesMarker ==
    (last.item.w = "stmt" /\ Unhandled(last.item.node))
        => \E k \in 1..Len(NewLines) : HasMarker(NewLines[k])

\* ---- degraded expressions
\* a comprehension with two or more generator clauses, or a slice whose step
\* is neither absent, 1 nor -1
IsDegraded(e) ==
    \/ e.t = "ListComp" /\ Len(e.generators) >= 2
    \/ /\ e.t = "Subscript" /\ e.slice.t = "Slice"
       /\ e.slice.step \notin {NoNode, Constant(1), USub(Constant(1))}
\* the translator state that governs later emission
Governing(tr) == <<tr.ind, tr.scope_stack, tr.loop_stack, tr.func_stack, tr.tmp_counter>>
DegradedAssigned ==
    /\ JustVisited("Assign") /\ Len(last.item.node.targets) = 1
    /\ last.item.node.targets[1].t = "Name"
    /\ IsDegraded(last.item.node.value)

\* C12 (graceful degradation of expressions): an assignment whose value is a
\* comprehension with several generators or a slice with a non-unit step
\* emits one statement line, at the current indentation, that holds a
\* placeholder; and the indentation, the scope stack, the loop stack (and the
\* function stack and the temporary counter) are afterwards what they would
\* be had the value been a plain name, so what follows is emitted alike.
C12_GracefulDegradation ==
    DegradedAssigned =>
        /\ Len(NewLines) = 1
        /\ HasMarker(NewLines[1])
        /\ NewLines[1].ind = last.before.ind
        /\ NewLines[1].text[Len(NewLines[1].text)] = ";"
        /\ Governing(translator)
             = Governing(visit_Assign(last.before,
                                      Assign(last.item.node.targets, Name("p"))))

\* a slice with step 2 assigned inside a loop inside a function
C12_Witness ==
    /\ DegradedAssigned
    /\ last.item.node.value.t = "Subscript"
    /\ translator.loop_stack # <<>> /\ translator.func_stack # <<>>

\* ---- two analyses
BothDone == Len(runs) = 2 /\ runs[1].done /\ runs[2].done

\* C13 (analysis determinism): two analyses of the same unit, by two fresh
\* analyzers in one process or in two, return the same summary, the order of
\* the names in every 'vars' list of comparison_points included.
C13_AnalysisDeterminism ==
    BothDone => runs[1].summary = runs[2].summary

\* the part that holds: two fresh analyzers in ONE process (one hash seed)
\* return the same summary
C13_SameProcessDeterminism ==
    (BothDone /\ runs[1].seed = runs[2].seed) => runs[1].summary = runs[2].summary

\* ---- parameter bindings
\* The unit translate_to_js was given, read off the statements still to visit
\* before the first of them is visited.
AtStart == phase = "visit" /\ last = NoLast
UnitBody == [k \in 1..Len(todo) |-> todo[k].node]
\* the binding the translator holds for parameter p of function f, NoName
\* when it holds none
BindingOf(tr, f, p) ==
    IF f \in DOMAIN tr.param_bindings
    THEN IF p \in DOMAIN tr.param_bindings[f] THEN tr.param_bindings[f][p] ELSE NoName
    ELSE NoName
\* what the top-level call sites of f pass at position k: a name, or NoName
\* for an argument that is no name or is absent
CandidatesAt(body, f, k) ==
    {IF k <= Len(body[c].value.args) /\ body[c].value.args[k].t = "Name"
     THEN body[c].value.args[k].id ELSE NoName :
        c \in {j \in 1..Len(body) : IsNameCall(body[j]) /\ body[j].value.func.id = f}}

\* C14 (Ambiguous bindings resolve to none): parameter p of a top-level
\* function f is bound to a name N only when the top-level call sites of f
\* give N as the single candidate at p's position; with different names
\* there, an argument that is no name, or no call, p has no binding.
C14_AmbiguousBindingsNone ==
    AtStart =>
        \A i \in 1..Len(UnitBody) :
            IsDef(UnitBody[i]) =>
                \A k \in 1..Len(UnitBody[i].args) :
                    LET N == BindingOf(translator, UnitBody[i].name, UnitBody[i].args[k])
                    IN  N # NoName => CandidatesAt(UnitBody, UnitBody[i].name, k) = {N}
\* f is called twice with different names for one parameter
C14_TwoCandidates ==
    /\ AtStart
    /\ \E i \in 1..Len(UnitBody) :
           /\ IsDef(UnitBody[i])
           /\ \E k \in 1..Len(UnitBody[i].args) :
                  \E n1, n2 \in CandidatesAt(UnitBody, UnitBody[i].name, k) \ {NoName} : n1 # n2

\* ---- instrumentation inside a function
\* the function whose body is being visited
InFunction == phase = "visit" /\ \E k \in 1..Len(todo) : todo[k].w = "end_FunctionDef"
CurrentDef ==
    todo[CHOOSE k \in 1..Len(todo) :
            /\ todo[k].w = "end_FunctionDef"
            /\ \A j \in 1..(k - 1) : todo[j].w # "end_FunctionDef"].node
Instrumentation == {"select", "deselect", "patch", "depatch"}
\* a line that calls a tracer method on the tracer named after base
IsTracerLineOn(line, base) ==
    /\ Len(line.text) >= 4
    /\ line.text[1] = base /\ line.text[2] = "Tracer" /\ line.text[4] \in Instrumentation

\* C15 (No instrumentation without a binding): inside a function, for a
\* parameter p with no resolved argument binding, the lines a statement
\* emits hold no select/deselect/patch/depatch call for p.
C15_NoInstrumentationUnbound ==
    InFunction =>
        \A k \in 1..Len(CurrentDef.args) :
            BindingOf(translator, CurrentDef.name, CurrentDef.args[k]) = NoName
                => \A l \in 1..Len(NewLines) : ~IsTracerLineOn(NewLines[l], CurrentDef.args[k])

\* ---- the helper preamble
\* the helpers by the name the statement lines call them, in the order of
\* their definitions, and the flag that asks for each
HelperNames ==
    <<"__idx", "__zip", "__defaultdict", "__counter", "__heappush", "__heappop",
      "__sum", "__sorted", "__reversed">>
FlagOf ==
    [__idx |-> "IDX", __zip |-> "ZIP", __defaultdict |-> "DEFAULTDICT",
     __counter |-> "COUNTER", __heappush |-> "HEAP", __heappop |-> "HEAP",
     __sum |-> "SUM", __sorted |-> "SORTED", __reversed |-> "REVERSED"]
DefinesHelper(line, name) ==
    /\ line.ind = 0 /\ Len(line.text) >= 2
    /\ line.text[1] \in {"function ", "const "} /\ line.text[2] = name
DefPositions(out, name) == {k \in 1..Len(out) : DefinesHelper(out[k], name)}
CallsHelper(line, name) == name \in Range(line.text) /\ ~DefinesHelper(line, name)
FirstCall(lines, name) ==
    CHOOSE k \in 1..Len(lines) :
        /\ CallsHelper(lines[k], name)
        /\ \A j \in 1..(k - 1) : ~CallsHelper(lines[j], name)

\* C16 (Helper preamble): the output is the helper definitions followed by
\* the statement lines; a helper is defined, once, exactly when it was
\* required during the walk; the definitions come in one fixed order; and
\* every helper a statement line calls is defined.
C16_HelperPreamble ==
    phase = "done" =>
        LET n == Len(js) - Len(translator.lines)
        IN  /\ n >= 0
            /\ SubSeq(js, n + 1, Len(js)) = translator.lines
            /\ \A i \in 1..Len(HelperNames) :
                 LET at == DefPositions(js, HelperNames[i])
                 IN  /\ Cardinality(at) <= 1
                     /\ at # {} <=> FlagOf[HelperNames[i]] \in translator.helpers_needed
                     /\ \A k \in at : k < n
                     /\ \A j \in (i + 1)..Len(HelperNames) :
                          \A k \in at : \A l \in DefPositions(js, HelperNames[j]) : k < l
            /\ \A k \in 1..Len(translator.lines) : \A i \in 1..Len(HelperNames) :
                 CallsHelper(translator.lines[k], HelperNames[i])
                     => DefPositions(js, HelperNames[i]) # {}
\* two helpers are defined, and the one defined later was required first
C16_Witness ==
    /\ phase = "done"
    /\ \E i, j \in 1..Len(HelperNames) :
         /\ i < j
         /\ DefPositions(js, HelperNames[i]) # {} /\ DefPositions(js, HelperNames[j]) # {}
         /\ \E k, l \in 1..Len(translator.lines) :
              /\ CallsHelper(translator.lines[k], HelperNames[i])
              /\ CallsHelper(translator.lines[l], HelperNames[j])
              /\ FirstCall(translator.lines, HelperNames[j])
                     < FirstCall(translator.lines, HelperNames[i])

\* ---- the meaning of a tuple assignment
\* The values the names hold before the statement.
ValueNames == {"v", "w", "m", "p"}
Envs == [ValueNames -> {1, 2}]
\* Python: the value of a right-hand side that is a name or a sum of names
RECURSIVE PyValue(_, _)
PyValue(env, node) ==
    IF node.t = "Name" THEN env[node.id]
    ELSE PyValue(env, node.left) + PyValue(env, node.right)
IsPlainValue(node) ==
    \/ node.t = "Name" /\ node.id \in ValueNames
    \/ /\ node.t = "BinOp" /\ node.op = "Add"
       /\ node.left.t = "Name" /\ node.left.id \in ValueNames
       /\ node.right.t = "Name" /\ node.right.id \in ValueNames
\* Python: every right-hand side is evaluated, then every target is bound
PyTupleAssign(env, targets, values) ==
    [n \in ValueNames |->
        IF \E k \in 1..Len(targets) : targets[k].id = n
        THEN PyValue(env, values[CHOOSE k \in 1..Len(targets) :
                                    /\ targets[k].id = n
                                    /\ \A j \in (k + 1)..Len(targets) : targets[j].id # n])
        ELSE env[n]]
\* JavaScript: the value of the text `x` or `(x + y)`
JsValue(env, text) ==
    IF Len(text) = 1 THEN env[text[1]] ELSE env[text[2]] + env[text[4]]
\* JavaScript: the lines `[let ]x = rhs;` run one after the other
RECURSIVE JsRun(_, _)
JsRun(env, lines) ==
    IF lines = <<>> THEN env
    ELSE LET text == IF Head(lines).text[1] = "let " THEN Tail(Head(lines).text)
                     ELSE Head(lines).text
             rhs == SubSeq(text, 3, Len(text) - 1)
         IN  JsRun([env EXCEPT ![text[1]] = JsValue(env, rhs)], Tail(lines))
\* the statement visited last is `x, y = e1, e2` over plain names
TupleOfNamesAssigned ==
    /\ phase = "visit" /\ last.item.w = "stmt" /\ last.item.node.t = "Assign"
    /\ Len(last.item.node.targets) = 1
    /\ last.item.node.targets[1].t = "Tuple" /\ last.item.node.value.t = "Tuple"
    /\ Len(last.item.node.targets[1].elts) = Len(last.item.node.value.elts)
    /\ \A k \in 1..Len(last.item.node.value.elts) :
         /\ last.item.node.targets[1].elts[k].t = "Name"
         /\ last.item.node.targets[1].elts[k].id \in ValueNames
         /\ IsPlainValue(last.item.node.value.elts[k])

\* C17 (Equivalent tuple assignment): the lines emitted for `x, y = e1, e2`
\* over plain names leave every name with the value the source statement
\* gives it, each right-hand side being evaluated on the values held before
\* the statement; `a, b = b, a` exchanges the two values.
C17_EquivalentTupleAssignment ==
    TupleOfNamesAssigned =>
        \A env \in Envs :
            JsRun(env, NewLines)
                = PyTupleAssign(env, last.item.node.targets[1].elts, last.item.node.value.elts)

\* ---- the scopes of the emitted program
\* JavaScript block scoping read off the emitted lines: a line that ends
\* with an opening brace opens a block, a line that starts with a closing
\* brace closes one; `let`/`const` declare in the innermost open block, the
\* parameters of a function and the `let` of a loop header in the block the
\* line opens.
OpensBlock(text) == text # <<>> /\ text[Len(text)] \in {" {", "{"}
ClosesBlock(text) == text # <<>> /\ text[1] = "}"
IsLetLine(text) == Len(text) >= 2 /\ text[1] \in {"let ", "const "}
IsPlainAssign(text) == Len(text) >= 2 /\ text[2] = " = "
IsLetlessHeader(text) == Len(text) >= 3 /\ text[1] = "for " /\ text[3] # "let "
\* the names a header without `let` assigns: the loop variable, or the names
\* of a bracketed pattern
HeaderNames(text) ==
    IF text[3] = "["
    THEN LET close == CHOOSE k \in 4..Len(text) :
                          text[k] = "]" /\ \A j \in 4..(k - 1) : text[j] # "]"
         IN  {text[k] : k \in 4..(close - 1)} \ {", "}
    ELSE {text[3]}
\* the names the block opened by a line starts with
HeaderDecls(text) ==
    IF text[1] = "function " THEN {text[k] : k \in 4..(Len(text) - 2)} \ {", "}
    ELSE IF text[1] = "for " /\ text[3] = "let " THEN {text[4]}
    ELSE {}
\* stack: the names declared in each open block; closed: the names declared
\* in the blocks closed so far.  A name assigned without `let` that some
\* earlier line declared must be declared in an open block.
RECURSIVE ScopeOk(_, _, _)
ScopeOk(lines, stack, closed) ==
    IF lines = <<>> THEN TRUE
    ELSE LET text == Head(lines).text
             st1 == IF ClosesBlock(text) THEN Pop(stack) ELSE stack
             cl1 == IF ClosesBlock(text) THEN closed \cup Top(stack) ELSE closed
             visible == UNION Range(st1)
             st2 == IF OpensBlock(text) THEN Append(st1, HeaderDecls(text))
                    ELSE IF IsLetLine(text)
                    THEN [st1 EXCEPT ![Len(st1)] = @ \cup {text[2]}]
                    ELSE st1
         IN  /\ IsPlainAssign(text) /\ text[1] \in cl1 => text[1] \in visible
             /\ IsLetlessHeader(text) => (HeaderNames(text) \cap cl1) \subseteq visible
             /\ ScopeOk(Tail(lines), st2, cl1)

\* C18 (Scope-correct declarations): every emitted plain assignment `x = e`
\* and every loop header without `let` lies inside the block or function in
\* which `let x` (or the parameter x) was emitted.
C18_ScopeCorrectDeclarations == ScopeOk(translator.lines, <<{}>>, {})

\* ---- the highlight of an if statement
\* the texts of the index expressions the subscripts of an expression put
\* on base, in document order, each once
DocIndexTexts(ls, node, base) ==
    LET subs == SelectSeq(DocWalk(node), IsSubscript)
        TextsOf(sub) ==
            LET ch == _subscript_chain(sub)
            IN  IF ch.base = base
                THEN [k \in 1..Len(ch.idxs) |-> js_expr(ls, ch.idxs[k]).js]
                ELSE <<>>
    IN  Unique(Flatten([k \in 1..Len(subs) |-> TextsOf(subs[k])]), {})
DocBases(node) ==
    {_subscript_chain(sub).base : sub \in Range(SelectSeq(DocWalk(node), IsSubscript))}
        \ {NoName}
\* the bases of a test that are traceable and carry two distinct indices
Highlighted(tr, test) ==
    {base \in DocBases(test) :
        /\ _mapped_tracer_base(tr, base) \in tr.traceable_1d \cup tr.traceable_2d
        /\ Len(DocIndexTexts(tr.loop_stack, test, base)) >= 2}
HighlightLine(tr, test, base, method) ==
    TracerCall(_mapped_tracer_base(tr, base), method,
               Take(DocIndexTexts(tr.loop_stack, test, base), 2))
IsDeselectLine(line) ==
    Len(line.text) >= 4 /\ line.text[2] = "Tracer" /\ line.text[4] = "deselect"

\* C19 (If-comparison highlight): for an if statement whose test holds at
\* least two distinct index expressions on one traceable base, a select of
\* the first two indices on that base is emitted before the `if`, and a
\* deselect of the same two right after the closing brace of the whole
\* statement.
C19_IfComparisonHighlight ==
    /\ phase = "visit" /\ last.item.w = "stmt" /\ last.item.node.t = "If" =>
         \A base \in Highlighted(last.before, last.item.node.test) :
             /\ NewLines[Len(NewLines)].text[1] = "if "
             /\ \E k \in 1..(Len(NewLines) - 1) :
                    NewLines[k].text
                        = HighlightLine(last.before, last.item.node.test, base, "select")
    /\ phase = "visit" /\ last.item.w = "end_If" =>
         \A base \in Highlighted(translator, last.item.node.test) :
             /\ NewLines[1].text = <<"}">>
             /\ \E k \in 2..Len(NewLines) :
                    /\ NewLines[k].text
                           = HighlightLine(translator, last.item.node.test, base, "deselect")
                    /\ \A j \in 2..k : IsDeselectLine(NewLines[j])

\* ---- the base of a range loop
\* the first base, in document order, that a subscript of the body uses and
\* that is among the traceable names; NoName when there is none
DocFirstTraceable(tr, body) ==
    LET subs == SelectSeq(Flatten([k \in 1..Len(body) |-> DocWalk(body[k])]), IsSubscript)
        Traceable(sub) ==
            _subscript_chain(sub).base \in tr.traceable_1d \cup tr.traceable_2d
        found == SelectSeq(subs, Traceable)
    IN  IF found = <<>> THEN NoName ELSE _subscript_chain(found[1]).base
\* the lines that select or deselect the loop index alone
IndexLines(lines, loop_var, method) ==
    {k \in 1..Len(lines) :
        /\ Len(lines[k].text) >= 5 /\ lines[k].text[2] = "Tracer"
        /\ lines[k].text[4] = method
        /\ SubSeq(lines[k].text, 6, Len(lines[k].text)) = loop_var \o <<")", ";">>}

\* C20 (Range-loop base choice): the base on which a range loop selects and
\* deselects its index is the first traceable base that the loop body
\* subscripts, in document order.
C20_RangeLoopBaseChoice ==
    /\ ( /\ phase = "visit" /\ last.item.w = "stmt" /\ last.item.node.t = "For"
         /\ IsRange(last.item.node.iter) ) =>
         \A k \in IndexLines(NewLines, Top(translator.loop_stack), "select") :
             NewLines[k].text[1]
                 = _mapped_tracer_base(translator,
                       DocFirstTraceable(translator, last.item.node.body))
    /\ (phase = "visit" /\ last.item.w = "end_Range") =>
         \A k \in IndexLines(NewLines, last.item.loop_var, "deselect") :
             NewLines[k].text[1]
                 = _mapped_tracer_base(translator,
                       DocFirstTraceable(translator, last.item.node.body))

\* ---- loop variables as indices
\* the induction variables of the for loops whose body is being visited:
\* the target name, or each name of a tuple target
TargetNames(target) ==
    IF target.t = "Name" THEN {target.id}
    ELSE IF target.t = "Tuple"
    THEN {target.elts[k].id : k \in {j \in 1..Len(target.elts) : target.elts[j].t = "Name"}}
    ELSE {}
ActiveLoopNames ==
    UNION {TargetNames(todo[k].node.target) :
              k \in {j \in 1..Len(todo) : todo[j].w \in {"end_For", "end_Range"}}}
\* the statement visited last is `v = b[n]` with a bare name n
BareNameRead ==
    /\ JustVisited("Assign") /\ Len(last.item.node.targets) = 1
    /\ last.item.node.targets[1].t = "Name"
    /\ last.item.node.value.t = "Subscript"
    /\ last.item.node.value.value.t = "Name" /\ last.item.node.value.slice.t = "Name"
    /\ NewLines # <<>>
WrappedIndex(base, n) == <<"__idx", "(", base, ", ", n, ")">>

\* C21 (Loop-variable indices stay bare): in the body of a for loop an
\* induction variable of that loop or of an enclosing one, used as a bare
\* first index, is emitted as-is, each name of a tuple target included; out
\* of the loop a name that is not a canonical index name is wrapped in __idx.
C21_LoopVariableIndicesBare ==
    BareNameRead =>
        LET base == last.item.node.value.value.id
            n == last.item.node.value.slice.id
        IN  /\ n \in ActiveLoopNames =>
                /\ HasSub(NewLines[1].text, <<base, "[", n, "]">>)
                /\ ~HasSub(NewLines[1].text, WrappedIndex(base, n))
            /\ (n \notin ActiveLoopNames /\ n \notin CanonicalIdx) =>
                HasSub(NewLines[1].text, WrappedIndex(base, n))

\* ---- the depth of a subscript chain
\* C22 (Subscript-chain depth cap): the depth recorded in var_depth and in
\* the update points never exceeds 10, and the translator's index chain
\* never holds more than 10 indices, however deep the expression.
C22_SubscriptDepthCap ==
    /\ \A n \in DOMAIN an.var_depth : an.var_depth[n] <= SubscriptCap
    /\ \A k \in 1..Len(walk.update_points) : walk.update_points[k].depth <= SubscriptCap
    /\ Len(walk.chain.idxs) <= SubscriptCap

\* ---- writes into a mapping
\* the statement visited last is `d[k] = v` on a name d
DictWriteVisited ==
    /\ JustVisited("Assign") /\ Len(last.item.node.targets) = 1
    /\ last.item.node.targets[1].t = "Subscript"
    /\ last.item.node.targets[1].value.t = "Name"
\* the provenance tags that contain 'defaultdict'
DefaultdictTags == {"defaultdict_init"}
HasDefaultdictTag(s, name) ==
    name \in DOMAIN s.var_sources /\ s.var_sources[name] \cap DefaultdictTags # {}
IsPushLine(line, d) ==
    /\ Len(line.text) >= 5 /\ line.text[1] = d /\ line.text[2] = "["
    /\ \E k \in 3..(Len(line.text) - 2) :
           line.text[k] = "]" /\ line.text[k + 1] = "." /\ line.text[k + 2] = "push"
IsWriteLine(line, d) ==
    /\ Len(line.text) >= 5 /\ line.text[1] = d /\ line.text[2] = "["
    /\ \E k \in 3..(Len(line.text) - 1) : line.text[k] = "]" /\ line.text[k + 1] = " = "

\* C23 (Default-mapping write): `d[k] = v` is emitted as `d[k].push(v)` exactly
\* when the summary records for d a provenance tag containing 'defaultdict',
\* and as a plain assignment otherwise, whatever the spelling of the name d.
C23_DefaultMappingWrite ==
    DictWriteVisited =>
        LET d == last.item.node.targets[1].value.id
        IN  IF HasDefaultdictTag(summary, d)
            THEN \E k \in 1..Len(NewLines) : IsPushLine(NewLines[k], d)
            ELSE /\ \E k \in 1..Len(NewLines) : IsWriteLine(NewLines[k], d)
                 /\ \A k \in 1..Len(NewLines) : ~IsPushLine(NewLines[k], d)

\* ---- how far the bindings of a call go
CallsOf(body, fname) ==
    {j \in 1..Len(body) : IsNameCall(body[j]) /\ body[j].value.func.id = fname}
\* the functions a top-level expression statement calls
TopCalled(body) == {fname \in DefNames(body) : CallsOf(body, fname) # {}}
\* the functions that an expression statement of the body of a function
\* called at top level calls
OneLevel(body) ==
    {gname \in DefNames(body) :
        \E fname \in TopCalled(body) : CallsOf(LastDef(body, fname).body, gname) # {}}
\* the functions that some function calls, at any depth below the top level
CalledBelow(body) ==
    {gname \in DefNames(body) :
        \E fname \in DefNames(body) : CallsOf(LastDef(body, fname).body, gname) # {}}
FirstCallOf(body, fname) ==
    body[CHOOSE j \in CallsOf(body, fname) : \A k \in CallsOf(body, fname) : j <= k]

\* C24 (One-level binding propagation): a function has bindings only if a
\* top-level expression statement calls it or a function called at top level
\* calls it; a function reached only through two or more calls has none; the
\* bindings of a function called at top level are those of its top-level
\* call, whatever the propagation finds.
C24_OneLevelPropagation ==
    AtStart =>
        /\ DOMAIN translator.param_bindings \subseteq TopCalled(UnitBody) \cup OneLevel(UnitBody)
        /\ \A fname \in TopCalled(UnitBody) :
               /\ fname \in DOMAIN translator.param_bindings
               /\ translator.param_bindings[fname]
                      = ArgMap(LastDef(UnitBody, fname).args,
                               FirstCallOf(UnitBody, fname).value.args, NameOrNone)
\* f alone is called at top level: g, which f calls, has the binding that
\* f passes on, and h, which only g calls, has none
C24_Witness ==
    /\ AtStart
    /\ TopCalled(UnitBody) = {"f"}
    /\ "g" \in OneLevel(UnitBody) /\ "g" \in DOMAIN translator.param_bindings
    /\ translator.param_bindings["g"]["b"] = "arr"
    /\ "h" \in CalledBelow(UnitBody) /\ "h" \notin DOMAIN translator.param_bindings

\* ---- the stacks of the walk
\* C25 (Stack balance): between any two statements of the walk the scope
\* stack holds one more entry than the function stack; when the translation
\* of a module has returned, the scope stack holds the global scope alone,
\* the function stack and the loop stack are empty and the indentation is 0.
C25_StackBalance ==
    /\ phase \in {"visit", "done"} =>
           Len(translator.scope_stack) = Len(translator.func_stack) + 1
    /\ (phase = "done" \/ (phase = "visit" /\ todo = <<>>)) =>
           /\ Len(translator.scope_stack) = 1
           /\ translator.func_stack = <<>>
           /\ translator.loop_stack = <<>>
           /\ translator.ind = 0
\* the translation has returned for a module with a function in a loop in a
\* function
C25_Witness ==
    /\ phase = "done"
    /\ \E k \in 1..Len(translator.lines) :
           translator.lines[k].ind = 3 /\ translator.lines[k].text[1] = "logger"
    /\ Len(translator.scope_stack) = 1

\* ---- the pairs of tracer calls in the output
\* the text between the parentheses of a tracer call
CallArgs(line) == SubSeq(line.text, 6, Len(line.text) - 2)
\* the call `close` ends the call `open`: a deselect has the arguments of its
\* select, a depatch those of its patch without the value
Closes(close, open) ==
    /\ close.text[1] = open.text[1]
    /\ \/ /\ close.text[4] = "deselect" /\ open.text[4] = "select"
          /\ CallArgs(close) = CallArgs(open)
       \/ /\ close.text[4] = "depatch" /\ open.text[4] = "patch"
          /\ Len(CallArgs(open)) > Len(CallArgs(close)) + 1
          /\ SubSeq(CallArgs(open), 1, Len(CallArgs(close))) = CallArgs(close)
          /\ CallArgs(open)[Len(CallArgs(close)) + 1] = ", "
\* every closing call of the lines ends an earlier call of open or of the
\* lines that is still open, and no call stays open
RECURSIVE Paired(_, _)
Paired(lines, open) ==
    IF lines = <<>> THEN open = <<>>
    ELSE IF ~IsTracerCall(Head(lines)) THEN Paired(Tail(lines), open)
    ELSE IF Head(lines).text[4] \in {"select", "patch"}
    THEN Paired(Tail(lines), Append(open, Head(lines)))
    ELSE LET ends == {k \in 1..Len(open) : Closes(Head(lines), open[k])}
             first == CHOOSE k \in ends : \A j \in ends : k <= j
         IN  /\ ends # {}
             /\ Paired(Tail(lines),
                       SubSeq(open, 1, first - 1) \o SubSeq(open, first + 1, Len(open)))
CountOf(lines, tracer, method) ==
    Cardinality({k \in 1..Len(lines) :
        IsTracerCall(lines[k]) /\ lines[k].text[1] = tracer /\ lines[k].text[4] = method})

\* C27 (Paired instrumentation in the emitted text): in the output of a
\* translation each tracer has as many select calls as deselect calls and as
\* many patch calls as depatch calls, and each deselect or depatch has the
\* index arguments of the select or patch that it closes.
C27_PairedInstrumentation ==
    phase = "done" =>
        /\ \A k \in 1..Len(translator.lines) :
               IsTracerCall(translator.lines[k]) =>
                   LET tracer == translator.lines[k].text[1]
                   IN  /\ CountOf(translator.lines, tracer, "select")
                              = CountOf(translator.lines, tracer, "deselect")
                       /\ CountOf(translator.lines, tracer, "patch")
                              = CountOf(translator.lines, tracer, "depatch")
        /\ Paired(translator.lines, <<>>)
\* an output with a select around a patch, and two tracers
C27_Witness ==
    /\ phase = "done"
    /\ \E i, j, k \in 1..Len(translator.lines) :
           /\ i < j /\ j < k
           /\ LineKind(translator.lines[i]) = "select"
           /\ LineKind(translator.lines[j]) = "patch"
           /\ LineKind(translator.lines[k]) = "deselect"
           /\ Closes(translator.lines[k], translator.lines[i])

\* ---- the run of the emitted program
\* The emitted lines are run as JavaScript runs them: one line at a time, a
\* block ending at the `}` of its indentation, the tests of if, for and while
\* taking either value, a call of a translated function entering its body.
\* exec.open holds the select calls that no deselect has closed yet, each
\* with its line and the number of frames at the time of the call.
Code == translator.lines
IsElse(k) == Code[k].text = <<"}", " else ", "{">>
IsLoop(k) == Code[k].text[1] \in {"for ", "while "}
IsFunction(k) == Code[k].text[1] = "function "
Opens(k) == IsLoop(k) \/ IsFunction(k) \/ IsElse(k) \/ Code[k].text[1] = "if "
\* the line that ends the block which line k opens
CloseOf(k) ==
    CHOOSE j \in (k + 1)..Len(Code) :
        /\ Code[j].ind = Code[k].ind /\ Code[j].text[1] = "}"
        /\ \A i \in (k + 1)..(j - 1) : ~(Code[i].ind = Code[k].ind /\ Code[i].text[1] = "}")
\* the line that opens the block which line k ends
OpenOf(k) ==
    CHOOSE j \in 1..(k - 1) :
        /\ Code[j].ind = Code[k].ind /\ Opens(j)
        /\ \A i \in (j + 1)..(k - 1) : ~(Code[i].ind = Code[k].ind /\ Opens(i))
\* the innermost loop around line k
LoopsAround(k) == {j \in 1..(k - 1) : IsLoop(j) /\ CloseOf(j) > k}
LoopOf(k) == CHOOSE j \in LoopsAround(k) : \A i \in LoopsAround(k) : i <= j
FunctionNames == {Code[k].text[2] : k \in {j \in 1..Len(Code) : IsFunction(j)}}
FunctionLine(fname) ==
    CHOOSE k \in 1..Len(Code) : IsFunction(k) /\ Code[k].text[2] = fname
           /\ \A j \in (k + 1)..Len(Code) : ~(IsFunction(j) /\ Code[j].text[2] = fname)

Running == phase = "done" /\ exec.on /\ exec.pc \in 1..Len(Code)
Here == Code[exec.pc].text
Goto(k) ==
    /\ exec' = [exec EXCEPT !.pc = k]
    /\ UNCHANGED <<an, pc, steps, summary, obs, translator, todo, phase, js, last,
                   unit, runs, walk, jsheap>>
\* the end of a function body or a return: back to the caller, or the end of
\* the program when there is none
Leave ==
    IF exec.calls = <<>> THEN Goto(Len(Code) + 1)
    ELSE /\ exec' = [exec EXCEPT !.pc = exec.calls[Len(exec.calls)], !.calls = Pop(@)]
         /\ UNCHANGED <<an, pc, steps, summary, obs, translator, todo, phase, js, last,
                        unit, runs, walk, jsheap>>

ExecStart ==
    /\ phase = "done" /\ ~exec.on
    /\ exec' = [exec EXCEPT !.on = TRUE, !.pc = 1]
    /\ UNCHANGED <<an, pc, steps, summary, obs, translator, todo, phase, js, last,
                   unit, runs, walk, jsheap>>
\* a function declaration is passed over
ExecDeclaration == Running /\ IsFunction(exec.pc) /\ Goto(CloseOf(exec.pc) + 1)
\* `f(...);` for a translated function f
ExecCall ==
    /\ Running /\ Len(Here) >= 2 /\ Here[2] = "(" /\ Here[1] \in FunctionNames
    /\ exec' = [exec EXCEPT !.pc = FunctionLine(Here[1]) + 1,
                            !.calls = Append(@, exec.pc + 1)]
    /\ UNCHANGED <<an, pc, steps, summary, obs, translator, todo, phase, js, last,
                   unit, runs, walk, jsheap>>
\* `if (...) {`: into the block, or past it (to the else branch when there is one)
ExecIf ==
    /\ Running /\ Here[1] = "if "
    /\ Goto(exec.pc + 1) \/ Goto(CloseOf(exec.pc) + 1)
\* `} else {` at the end of the first branch
ExecElse == Running /\ IsElse(exec.pc) /\ Goto(CloseOf(exec.pc) + 1)
\* `for (...) {` and `while (...) {`: one more iteration, or out of the loop
ExecLoop ==
    /\ Running /\ IsLoop(exec.pc)
    /\ \/ /\ exec.iters < MaxIter
          /\ exec' = [exec EXCEPT !.pc = @ + 1, !.iters = @ + 1]
          /\ UNCHANGED <<an, pc, steps, summary, obs, translator, todo, phase, js, last,
                         unit, runs, walk, jsheap>>
       \/ Goto(CloseOf(exec.pc) + 1)
\* `}`: back to the head of a loop, out of a function, or on
ExecClose ==
    /\ Running /\ Here = <<"}">>
    /\ IF IsLoop(OpenOf(exec.pc)) THEN Goto(OpenOf(exec.pc))
       ELSE IF IsFunction(OpenOf(exec.pc)) THEN Leave
       ELSE Goto(exec.pc + 1)
ExecBreak ==
    /\ Running /\ Here = <<"break", ";">> /\ LoopsAround(exec.pc) # {}
    /\ Goto(CloseOf(LoopOf(exec.pc)) + 1)
ExecContinue ==
    /\ Running /\ Here = <<"continue", ";">> /\ LoopsAround(exec.pc) # {}
    /\ Goto(LoopOf(exec.pc))
ExecReturn == Running /\ Here[1] = "return" /\ Leave
ExecSelect ==
    /\ Running /\ LineKind(Code[exec.pc]) = "select"
    /\ exec' = [exec EXCEPT !.pc = @ + 1,
                            !.open = Append(@, [line |-> exec.pc, depth |-> Len(exec.calls)])]
    /\ UNCHANGED <<an, pc, steps, summary, obs, translator, todo, phase, js, last,
                   unit, runs, walk, jsheap>>
\* a deselect closes the latest open select of its tracer and arguments
ExecDeselect ==
    /\ Running /\ LineKind(Code[exec.pc]) = "deselect"
    /\ LET ends == {k \in 1..Len(exec.open) :
                       Closes(Code[exec.pc], Code[exec.open[k].line])}
           latest == CHOOSE k \in ends : \A j \in ends : j <= k
       IN  exec' = [exec EXCEPT !.pc = @ + 1,
                       !.open = IF ends = {} THEN @
                                ELSE SubSeq(@, 1, latest - 1) \o SubSeq(@, latest + 1, Len(@))]
    /\ UNCHANGED <<an, pc, steps, summary, obs, translator, todo, phase, js, last,
                   unit, runs, walk, jsheap>>
\* every other line has no effect on the position but to move it on
ExecOther ==
    /\ Running
    /\ ~Opens(exec.pc) /\ Here[1] # "}"
    /\ Here \notin {<<"break", ";">>, <<"continue", ";">>} /\ Here[1] # "return"
    /\ LineKind(Code[exec.pc]) \notin {"select", "deselect"}
    /\ ~(Len(Here) >= 2 /\ Here[2] = "(" /\ Here[1] \in FunctionNames)
    /\ Goto(exec.pc + 1)

\* the programs run: a function with one statement, called once
ExecStatements ==
    Exits
    \cup {For(Name("i"), RangeCall(<<Name("n")>>), <<Assign(<<Name("v")>>, At("a", Name("i")))>>),
          If(Compare(At("a", Name("i")), "Gt", At("a", BinOp(Name("i"), "Add", Constant(1)))),
             <<Swap(At("a", Name("i")), At("a", BinOp(Name("i"), "Add", Constant(1))))>>,
             <<Assign(<<Name("v")>>, Constant(0))>>)}
InitExec ==
    \E s \in ExecStatements :
        LET module == <<FunctionDef("f", <<"a", "g">>, <<s>>), CallF>>
        IN  /\ summary = [NoSummary EXCEPT !.vars_1d = <<"arr">>,
                                           !.var_sources = var_sources(module)]
            /\ translator = TranslatorNew({"arr"}, {}, _collect_param_bindings(module))
            /\ todo = Items(module)
            /\ phase = "visit"
            /\ js = <<>>
            /\ last = NoLast
            /\ an = AnalyzerInit /\ pc = "done" /\ steps = 0 /\ obs = ObsInit
            /\ unit = <<>> /\ runs = NoRuns /\ walk = NoWalk /\ jsheap = NoHeap /\ exec = NoExec
NextExec ==
    \/ TrAssign
    \/ TrExpr
    \/ TrBreak
    \/ TrContinue
    \/ TrReturn
    \/ TrIf
    \/ TrIfElse
    \/ TrIfExit
    \/ TrRangeLoop
    \/ TrRangeLoopExit
    \/ TrWhile
    \/ TrWhileExit
    \/ TrFunctionDef
    \/ TrFunctionDefExit
    \/ TrModuleReturn
    \/ ExecStart
    \/ ExecDeclaration
    \/ ExecCall
    \/ ExecIf
    \/ ExecElse
    \/ ExecLoop
    \/ ExecClose
    \/ ExecBreak
    \/ ExecContinue
    \/ ExecReturn
    \/ ExecSelect
    \/ ExecDeselect
    \/ ExecOther
SpecExec == InitExec /\ [][NextExec]_vars

\* the deselect call that the translator wrote for the select call of line s
DeselectsOf(s) ==
    {d \in (s + 1)..Len(Code) :
        /\ Code[d].ind = Code[s].ind /\ LineKind(Code[d]) = "deselect"
        /\ Closes(Code[d], Code[s])}
DeselectOf(s) == CHOOSE d \in DeselectsOf(s) : \A j \in DeselectsOf(s) : d <= j

\* C28 (No selection left behind at run time): while a select call is open,
\* the frame that made it is still there, and when it is the running frame
\* the position is after the select and not after its deselect: control has
\* not left the iteration or the statement, by break, continue, return or
\* otherwise, with the selection open.
C28_NoSelectionLeftBehind ==
    (phase = "done" /\ exec.on) =>
        \A k \in 1..Len(exec.open) :
            /\ DeselectsOf(exec.open[k].line) # {}
            /\ Len(exec.calls) >= exec.open[k].depth
            /\ Len(exec.calls) = exec.open[k].depth =>
                   /\ exec.pc > exec.open[k].line
                   /\ exec.pc <= DeselectOf(exec.open[k].line)

\* ---- the heap helpers
IsMinHeap(h) == \A i \in 1..(Len(h) - 1) : JsAt(h, Shr1(i - 1)) <= JsAt(h, i)
SeqMin(h) == CHOOSE v \in Range(h) : \A w \in Range(h) : v <= w

\* C30 (Heap helper invariant): from the empty array, after any calls of
\* __heappush and __heappop the array is a min-heap with the parent of i at
\* (i - 1) >> 1; __heappop on a non-empty array returns its least element and
\* leaves it one shorter; on the empty array it returns undefined and leaves
\* it empty.
C30_HeapHelpers ==
    phase = "heap" =>
        /\ IsMinHeap(jsheap.h)
        /\ (jsheap.op = "pop" /\ jsheap.before # <<>>) =>
               /\ jsheap.ret = <<SeqMin(jsheap.before)>>
               /\ Len(jsheap.h) = Len(jsheap.before) - 1
        /\ (jsheap.op = "pop" /\ jsheap.before = <<>>) =>
               /\ jsheap.ret = <<>>
               /\ jsheap.h = <<>>
\* a pop from four elements or more after which the element moved to the
\* front has been sifted down
C30_Witness ==
    /\ phase = "heap" /\ jsheap.op = "pop" /\ Len(jsheap.before) >= 4
    /\ jsheap.h[1] # jsheap.before[Len(jsheap.before)]
    /\ jsheap.ret = <<SeqMin(jsheap.before)>>

\* ---- the analyzer claims

\* C2: in the summary no name is in both vars_1d and vars_2d, and a name that
\* was subscripted two or more levels deep (so that its inner subscript was
\* visited at depth 1 as well) is reported in vars_2d only.
C2_MutualExclusion ==
    pc = "done" =>
        /\ SetOf(summary.vars_1d) \cap SetOf(summary.vars_2d) = {}
        /\ \A n \in NamesA :
              obs.depth[n] >= 2 =>
                  n \in SetOf(summary.vars_2d) /\ n \notin SetOf(summary.vars_1d)
\* A summary of a unit in which some name was subscripted as m[i][j].
C2_Witness ==
    /\ pc = "done"
    /\ \E n \in NamesA : obs.depth[n] >= 2 /\ n \in SetOf(summary.vars_2d)
    /\ summary.vars_1d # <<>>

\* C7: during one traversal var_depth[v] never decreases, for any v.
C7_DepthNeverDecreases ==
    [][\A n \in NamesA : an'.var_depth[n] >= an.var_depth[n]]_vars
\* C7 (second half): in the summary var_depth[v] is the longest subscript
\* chain on v visited in the unit.
C7_DepthIsMaxObserved ==
    pc = "done" => \A n \in NamesA : summary.var_depth[n] = obs.depth[n]

\* C8: key_vars has at most 3 entries, and is empty exactly when the 1-D,
\* 2-D, stack and queue sets of the summary are all empty.
C8_KeyVarCap ==
    pc = "done" =>
        /\ Len(summary.key_vars) <= 3
        /\ (summary.key_vars = <<>>) <=>
              (/\ summary.vars_1d = <<>> /\ summary.vars_2d = <<>>
               /\ summary.vars_stack = <<>> /\ summary.vars_queue = <<>>)
\* A summary with more candidates than places: three key variables and a
\* stack or queue variable left out.
C8_Witness ==
    /\ pc = "done"
    /\ Len(summary.key_vars) = 3
    /\ Len(summary.vars_2d) + Len(summary.vars_1d) = 3
    /\ summary.vars_stack # <<>>

\* C9: viz_type follows the fixed priority graph > array2d > sorting >
\* array1d > stack_queue > basic, read on the summary's own fields.
C9_VizTypePriority ==
    pc = "done" =>
        summary.viz_type =
            IF summary.has_graph_traversal \/ summary.vars_graph # <<>>
                  \/ summary.vars_tree # <<>> THEN "graph"
            ELSE IF summary.vars_2d # <<>> THEN "array2d"
            ELSE IF summary.has_sorting THEN "sorting"
            ELSE IF summary.vars_1d # <<>> THEN "array1d"
            ELSE IF summary.vars_stack # <<>> \/ summary.vars_queue # <<>>
                 THEN "stack_queue"
            ELSE "basic"
\* A summary where the order of the priorities decides: the sorting flag is
\* set and there is a 2-D variable.
C9_Witness ==
    /\ pc = "done"
    /\ summary.has_sorting
    /\ summary.vars_2d # <<>>
    /\ summary.viz_type = "array2d"

\* C10: for a unit with a comparison and an index swap on an array and no
\* sort/sorted call, has_sorting holds exactly when some function name,
\* lowercased, contains sort, bubble, merge or quick; and when the unit has
\* only 1-D variables and no graph flag, viz_type is "sorting" if has_sorting
\* and "array1d" otherwise.
SortNamed(name) == AnyIn(KwSorting, Lower(name))
ShapeOnly == obs.compare /\ obs.swap /\ ~obs.sort_call
C10_SortingFlagOrigin ==
    (pc = "done" /\ ShapeOnly) =>
        /\ summary.has_sorting <=> \E f \in obs.fnames : SortNamed(f)
        /\ (/\ summary.vars_2d = <<>> /\ summary.vars_tree = <<>>
            /\ summary.vars_graph = <<>> /\ summary.vars_1d # <<>>
            /\ ~summary.has_graph_traversal)
           => summary.viz_type = IF summary.has_sorting THEN "sorting" ELSE "array1d"
\* The comparison/swap shape inside a function whose name has no sorting
\* keyword: the flag stays clear and the category is array1d.
C10_Witness ==
    /\ pc = "done" /\ ShapeOnly
    /\ obs.fnames = {N_solve}
    /\ ~summary.has_sorting
    /\ summary.viz_type = "array1d"

\* ---- the flags of sort and bisect calls
\* C26 (Sort and bisect calls set the flags): after a unit that calls sort or
\* sorted, bare or as a method of a variable, has_sorting is set; after a
\* unit that calls a bisect function, bare or through the module,
\* has_searching is set.
C26_SortBisectFlags ==
    pc = "done" =>
        /\ obs.sorting_call => summary.has_sorting
        /\ obs.searching_call => summary.has_searching

\* ---- the names of key_vars
\* C29 (Key variables are distinct): the key_vars of a summary hold no name
\* twice, also for a variable that is in the stack or queue set.
C29_KeyVarsDistinct ==
    pc = "done" =>
        \A i, j \in 1..Len(summary.key_vars) :
            summary.key_vars[i] = summary.key_vars[j] => i = j

====
